---- MODULE Spec2Model ----
(***************************************************************************)
(* A model of the Flux compiler front end (otabekoff/flux): the lexer,     *)
(* the recursive-descent parser, name resolution, the type checker, IR     *)
(* emission and the command-line driver, with the properties the           *)
(* specification states about them.                                        *)
(*                                                                         *)
(* Source text is a sequence of one-character strings.  Offsets are the    *)
(* 0-based byte offsets of the C++ code; source[i + 1] is the byte at      *)
(* offset i.                                                               *)
(***************************************************************************)
EXTENDS Integers, Sequences, FiniteSets, TLC

\* ------------------------------------------------------------------------
\* Bounds of the model
\* ------------------------------------------------------------------------

\* longest source text enumerated character by character
MaxSrcLen == 3

\* most lexer calls made on one lexer object in the lexer API specification
MaxCalls == 4

\* most lexemes in the body of the function of a source given to parseModule
MaxBodyLen == 3

\* most lexemes in a source written with the lexemes of expressions
MaxExprLen == 5

\* most statements in the body of the function of a source given to the
\* driver
MaxStmts == 2

\* most declarations in a module given to Sema::analyze
MaxDecls == 3

\* most parameters of a function given to Sema::analyze
MaxParams == 2

\* most characters between the quotes of a string literal used as a pattern
MaxPatternLen == 3

\* ------------------------------------------------------------------------
\* State
\* ------------------------------------------------------------------------

VARIABLES
    source,     \* the source buffer the lexer reads
    lexer,      \* the fields of the Lexer object
    diags,      \* DiagnosticEngine::diagnostics_
    lexPc,      \* "ready", "done" (lexAll returned), "threw" (an exception
                \* left the lexer; nothing catches it, the process ends)
    tokens,     \* the vector lexAll builds
    pieces,     \* per lexAll iteration: the text skipped and the token
    history,    \* the lexer calls made so far, with what each returned
    returned,   \* the tokens nextToken returned, rewound by restoreState
    saved,      \* the Lexer::State taken by the last saveState
    parser,     \* the Parser object and the value its last call returned
    parserPc,   \* "new", or the parser function that was called on it
    driver,     \* the run of main: its position, the command line, the
                \* DiagnosticEngine, the exit code, the module parsed and
                \* the global scope of Sema
    sema        \* a call of Sema::analyze on the module parsed from the
                \* source: its position, the DiagnosticEngine, the global
                \* scope and what it returned

lexVars == <<source, lexer, diags, lexPc, tokens, pieces, history, returned, saved>>

parserVars == <<parser, parserPc>>

vars == <<lexVars, parserVars, driver, sema>>

\* ------------------------------------------------------------------------
\* Characters
\* ------------------------------------------------------------------------

\* the value peek()/peekNext() return past the end of the buffer
NUL == "NUL"

LowerLetters ==
    {"a","b","c","d","e","f","g","h","i","j","k","l","m",
     "n","o","p","q","r","s","t","u","v","w","x","y","z"}

UpperLetters ==
    {"A","B","C","D","E","F","G","H","I","J","K","L","M",
     "N","O","P","Q","R","S","T","U","V","W","X","Y","Z"}

Digits == {"0","1","2","3","4","5","6","7","8","9"}

isalpha(c) == c \in LowerLetters \cup UpperLetters

isdigit(c) == c \in Digits

isalnum(c) == isalpha(c) \/ isdigit(c)

isxdigit(c) == c \in Digits \cup {"a","b","c","d","e","f","A","B","C","D","E","F"}

IdentChars == LowerLetters \cup UpperLetters \cup Digits \cup {"_"}

DigitValue(c) ==
    CASE c = "0" -> 0 [] c = "1" -> 1 [] c = "2" -> 2 [] c = "3" -> 3
      [] c = "4" -> 4 [] c = "5" -> 5 [] c = "6" -> 6 [] c = "7" -> 7
      [] c = "8" -> 8 [] c = "9" -> 9
      [] c \in {"a","A"} -> 10 [] c \in {"b","B"} -> 11
      [] c \in {"c","C"} -> 12 [] c \in {"d","D"} -> 13
      [] c \in {"e","E"} -> 14 [] c \in {"f","F"} -> 15

\* ------------------------------------------------------------------------
\* Sequence helpers
\* ------------------------------------------------------------------------

RECURSIVE Concat(_)
\* the string made of the characters of a sequence of one-character strings
Concat(cs) == IF cs = <<>> THEN "" ELSE Head(cs) \o Concat(Tail(cs))

\* source_.substr(start, len) as a character sequence
SubstrSeq(src, start, len) == SubSeq(src, start + 1, start + len)

\* source_.substr(start, len) as a string
Substr(src, start, len) == Concat(SubstrSeq(src, start, len))

RECURSIVE StripZeros(_)
StripZeros(ds) ==
    IF ds # <<>> /\ Head(ds) = "0" THEN StripZeros(Tail(ds)) ELSE ds

RECURSIVE ToNumber(_, _, _)
\* the value of the digit sequence ds in the given base, on top of acc
ToNumber(ds, base, acc) ==
    IF ds = <<>> THEN acc
    ELSE ToNumber(Tail(ds), base, acc * base + DigitValue(Head(ds)))

RECURSIVE SeqGreater(_, _)
\* digit sequences of equal length: a > b as numerals
SeqGreater(a, b) ==
    IF a = <<>> THEN FALSE
    ELSE IF DigitValue(Head(a)) # DigitValue(Head(b))
         THEN DigitValue(Head(a)) > DigitValue(Head(b))
         ELSE SeqGreater(Tail(a), Tail(b))

\* ------------------------------------------------------------------------
\* Tokens (Token.h) and the keyword table
\* ------------------------------------------------------------------------

keywords ==
    ("module" :> "KwModule") @@ ("import" :> "KwImport") @@
    ("func" :> "KwFunc") @@ ("let" :> "KwLet") @@ ("mut" :> "KwMut") @@
    ("const" :> "KwConst") @@ ("struct" :> "KwStruct") @@
    ("class" :> "KwClass") @@ ("enum" :> "KwEnum") @@
    ("trait" :> "KwTrait") @@ ("impl" :> "KwImpl") @@ ("type" :> "KwType") @@
    ("self" :> "KwSelf") @@ ("Self" :> "KwSelfType") @@ ("if" :> "KwIf") @@
    ("else" :> "KwElse") @@ ("match" :> "KwMatch") @@ ("for" :> "KwFor") @@
    ("while" :> "KwWhile") @@ ("loop" :> "KwLoop") @@
    ("break" :> "KwBreak") @@ ("continue" :> "KwContinue") @@
    ("return" :> "KwReturn") @@ ("in" :> "KwIn") @@ ("move" :> "KwMove") @@
    ("ref" :> "KwRef") @@ ("drop" :> "KwDrop") @@ ("async" :> "KwAsync") @@
    ("await" :> "KwAwait") @@ ("spawn" :> "KwSpawn") @@
    ("unsafe" :> "KwUnsafe") @@ ("pub" :> "KwPub") @@
    ("public" :> "KwPublic") @@ ("private" :> "KwPrivate") @@
    ("true" :> "KwTrue") @@ ("false" :> "KwFalse") @@ ("and" :> "KwAnd") @@
    ("or" :> "KwOr") @@ ("not" :> "KwNot") @@ ("as" :> "KwAs") @@
    ("is" :> "KwIs") @@ ("where" :> "KwWhere") @@ ("use" :> "KwUse") @@
    ("Void" :> "KwVoid") @@ ("panic" :> "KwPanic") @@
    ("assert" :> "KwAssert")

identifierKind(text) ==
    IF text \in DOMAIN keywords THEN keywords[text] ELSE "Identifier"

\* a default-constructed Token
NoToken ==
    [kind |-> "Eof", text |-> "", line |-> 0, column |-> 0, offset |-> 0,
     intValue |-> 0, floatValue |-> ""]

\* ------------------------------------------------------------------------
\* Numeric conversion (std::stoll, std::stod as lexNumber calls them)
\* ------------------------------------------------------------------------

\* largest numerals std::stoll converts: 2^63 - 1 in each base
Int64MaxDec == <<"9","2","2","3","3","7","2","0","3","6","8","5","4","7","7","5","8","0","7">>

Int64MaxHex == <<"7","f","f","f","f","f","f","f","f","f","f","f","f","f","f","f">>

Int64MaxOct == <<"7","7","7","7","7","7","7","7","7","7","7","7","7","7","7","7","7","7","7","7","7">>

Int64MaxBin == [i \in 1..63 |-> "1"]

Int64MaxNumeral(base) ==
    CASE base = 10 -> Int64MaxDec [] base = 16 -> Int64MaxHex
      [] base = 8 -> Int64MaxOct [] base = 2 -> Int64MaxBin

\* std::stoll(clean, nullptr, base) throws std::invalid_argument when no
\* digit can be converted and std::out_of_range above 2^63 - 1
StollThrows(clean, base) ==
    LET ds == StripZeros(clean)
        mx == Int64MaxNumeral(base)
    IN  \/ clean = <<>>
        \/ Len(ds) > Len(mx)
        \/ Len(ds) = Len(mx) /\ SeqGreater(ds, mx)

\* the converted value (exact for the numerals below 2^31 the model lexes)
StollValue(clean, base) == ToNumber(StripZeros(clean), base, 0)

\* decimal exponent above which std::stod reports ERANGE for a double
DoubleMaxExp10 == 308

\* decimal exponent below which std::stod reports ERANGE for a double
DoubleMinExp10 == 324

\* the characters of a float lexeme before the exponent marker
Mantissa(clean) ==
    LET idx == {i \in 1..Len(clean) : clean[i] \in {"e", "E"}}
    IN  IF idx = {} THEN clean
        ELSE SubSeq(clean, 1, (CHOOSE i \in idx : \A j \in idx : i <= j) - 1)

\* the exponent digits of a float lexeme and its sign
ExponentPart(clean) ==
    LET idx == {i \in 1..Len(clean) : clean[i] \in {"e", "E"}}
    IN  IF idx = {} THEN <<>>
        ELSE SubSeq(clean, (CHOOSE i \in idx : \A j \in idx : i <= j) + 1,
                    Len(clean))

\* std::stod(clean) throws std::out_of_range when the value overflows a
\* double (the magnitude is judged by the decimal exponent of the numeral)
StodThrows(clean) ==
    LET ex == ExponentPart(clean)
        neg == ex # <<>> /\ Head(ex) = "-"
        exDigits == StripZeros(SelectSeq(ex, LAMBDA c : c \in Digits))
        mant == Mantissa(clean)
        intDigits == StripZeros(SelectSeq(
                        SubSeq(mant, 1,
                               IF \E i \in 1..Len(mant) : mant[i] = "."
                               THEN (CHOOSE i \in 1..Len(mant) : mant[i] = ".") - 1
                               ELSE Len(mant)),
                        LAMBDA c : c \in Digits))
        nonZero == \E i \in 1..Len(mant) : mant[i] \in Digits \ {"0"}
    IN  /\ nonZero
        /\ \/ Len(exDigits) > 3
           \/ /\ exDigits # <<>>
              /\ ~neg
              /\ ToNumber(exDigits, 10, 0) + Len(intDigits) - 1 > DoubleMaxExp10
           \/ /\ exDigits # <<>>
              /\ neg
              /\ ToNumber(exDigits, 10, 0) - Len(intDigits) > DoubleMinExp10

\* ------------------------------------------------------------------------
\* Lexer (lib/Lexer/Lexer.cpp)
\*
\* A lexer state is a record of the Lexer fields
\*   current, tokenStart, line, column, tokenLine, tokenColumn,
\*   hasPeeked, peekedToken
\* and the private operations take and return the record.  Diagnostics are
\* returned next to it as the sequence of those emitted by the call.
\* ------------------------------------------------------------------------

\* the lexer right after construction
NewLexer ==
    [current |-> 0, tokenStart |-> 0, line |-> 1, column |-> 1,
     tokenLine |-> 1, tokenColumn |-> 1, hasPeeked |-> FALSE,
     peekedToken |-> NoToken]

isAtEnd(src, s) == s.current >= Len(src)

peek(src, s) == IF isAtEnd(src, s) THEN NUL ELSE src[s.current + 1]

peekNext(src, s) ==
    IF s.current + 1 >= Len(src) THEN NUL ELSE src[s.current + 2]

advance(src, s) ==
    IF src[s.current + 1] = "\n"
    THEN [s EXCEPT !.current = @ + 1, !.line = @ + 1, !.column = 1]
    ELSE [s EXCEPT !.current = @ + 1, !.column = @ + 1]

\* match(expected): the new state and whether the character was consumed
match(src, s, expected) ==
    IF isAtEnd(src, s) \/ src[s.current + 1] # expected
    THEN [s |-> s, ok |-> FALSE]
    ELSE [s |-> advance(src, s), ok |-> TRUE]

RECURSIVE AdvanceWhileIn(_, _, _)
\* while (!isAtEnd() && peek() in set) advance();
AdvanceWhileIn(src, s, set) ==
    IF ~isAtEnd(src, s) /\ peek(src, s) \in set
    THEN AdvanceWhileIn(src, advance(src, s), set)
    ELSE s

RECURSIVE LineCommentLoop(_, _)
LineCommentLoop(src, s) ==
    IF ~isAtEnd(src, s) /\ peek(src, s) # "\n"
    THEN LineCommentLoop(src, advance(src, s))
    ELSE s

skipLineComment(src, s) == LineCommentLoop(src, advance(src, advance(src, s)))

RECURSIVE BlockCommentLoop(_, _, _)
\* the loop of skipBlockComment: the state and the depth it ends with
BlockCommentLoop(src, s, depth) ==
    IF ~isAtEnd(src, s) /\ depth > 0
    THEN IF peek(src, s) = "/" /\ peekNext(src, s) = "*"
         THEN BlockCommentLoop(src, advance(src, advance(src, s)), depth + 1)
         ELSE IF peek(src, s) = "*" /\ peekNext(src, s) = "/"
              THEN BlockCommentLoop(src, advance(src, advance(src, s)), depth - 1)
              ELSE BlockCommentLoop(src, advance(src, s), depth)
    ELSE [s |-> s, depth |-> depth]

\* diag_.emitError(loc, message)
Diag(message, line, column) ==
    [severity |-> "Error", message |-> message, line |-> line,
     column |-> column]

\* skipBlockComment: the state, whether the comment was closed, diagnostics
skipBlockComment(src, s) ==
    LET r == BlockCommentLoop(src, advance(src, advance(src, s)), 1)
    IN  IF r.depth > 0
        THEN [s |-> r.s, ok |-> FALSE,
              diags |-> <<Diag("unterminated block comment", r.s.line,
                               r.s.column)>>]
        ELSE [s |-> r.s, ok |-> TRUE, diags |-> <<>>]

RECURSIVE skipWhitespace(_, _)
\* skipWhitespace: the state and the diagnostics emitted
skipWhitespace(src, s) ==
    IF isAtEnd(src, s) THEN [s |-> s, diags |-> <<>>]
    ELSE LET c == peek(src, s)
         IN  IF c \in {" ", "\t", "\r", "\n"}
             THEN skipWhitespace(src, advance(src, s))
             ELSE IF c = "/"
                  THEN IF peekNext(src, s) = "/"
                       THEN skipWhitespace(src, skipLineComment(src, s))
                       ELSE IF peekNext(src, s) = "*"
                            THEN LET b == skipBlockComment(src, s)
                                 IN  IF ~b.ok
                                     THEN [s |-> b.s, diags |-> b.diags]
                                     ELSE skipWhitespace(src, b.s)
                            ELSE [s |-> s, diags |-> <<>>]
                  ELSE [s |-> s, diags |-> <<>>]

\* makeToken with the text slice one character short
makeTokenShort(src, s, kind) ==
    [kind |-> kind,
     text |-> Substr(src, s.tokenStart, s.current - s.tokenStart - 1),
     line |-> s.tokenLine, column |-> s.tokenColumn, offset |-> s.tokenStart,
     intValue |-> 0, floatValue |-> ""]

\* makeToken(kind): the text is the slice [tokenStart, current)
makeToken(src, s, kind) ==
    [kind |-> kind,
     text |-> Substr(src, s.tokenStart, s.current - s.tokenStart),
     line |-> s.tokenLine, column |-> s.tokenColumn, offset |-> s.tokenStart,
     intValue |-> 0, floatValue |-> ""]

\* makeToken(kind, text)
makeTokenText(src, s, kind, text) ==
    [kind |-> kind, text |-> text,
     line |-> s.tokenLine, column |-> s.tokenColumn, offset |-> s.tokenStart,
     intValue |-> 0, floatValue |-> ""]

\* The result of a token producer: the lexer state, the token, the
\* diagnostics emitted and whether the call left by an exception.
Produced(s, tok) == [s |-> s, tok |-> tok, diags |-> <<>>, threw |-> FALSE]

Thrown(s) == [s |-> s, tok |-> NoToken, diags |-> <<>>, threw |-> TRUE]

errorToken(src, s, message) ==
    [s |-> s,
     tok |-> [kind |-> "Invalid",
              text |-> Substr(src, s.tokenStart, s.current - s.tokenStart),
              line |-> s.tokenLine, column |-> s.tokenColumn,
              offset |-> s.tokenStart, intValue |-> 0, floatValue |-> ""],
     diags |-> <<Diag(message, s.tokenLine, s.tokenColumn)>>,
     threw |-> FALSE]

lexIdentifierOrKeyword(src, s) ==
    LET s1 == AdvanceWhileIn(src, s, IdentChars)
        text == Substr(src, s1.tokenStart, s1.current - s1.tokenStart)
    IN  Produced(s1, makeTokenText(src, s1, identifierKind(text), text))

\* the characters of the token text from index `from` on, underscores removed
CleanDigits(src, s, from) ==
    SelectSeq(SubstrSeq(src, s.tokenStart + from,
                        s.current - s.tokenStart - from),
              LAMBDA c : c # "_")

\* std::stoll on the digits of a prefixed literal
prefixedToken(src, s, base, clean) ==
    IF StollThrows(clean, base) THEN Thrown(s)
    ELSE Produced(s, [makeToken(src, s, "IntLiteral")
                        EXCEPT !.intValue = StollValue(clean, base)])

\* the tail shared by the 0x, 0b and 0o branches of lexNumber
PrefixedInt(src, s, base) == prefixedToken(src, s, base, CleanDigits(src, s, 2))

\* the conversions at the end of lexNumber's decimal branch
decimalToken(src, s, isFloat, clean) ==
    IF isFloat
    THEN IF StodThrows(clean) THEN Thrown(s)
         ELSE Produced(s, [makeToken(src, s, "FloatLiteral")
                             EXCEPT !.floatValue = Concat(clean)])
    ELSE IF StollThrows(clean, 10) THEN Thrown(s)
         ELSE Produced(s, [makeToken(src, s, "IntLiteral")
                             EXCEPT !.intValue = StollValue(clean, 10)])

\* lexNumber from the exponent digits on; s is the state after the sign
lexExponentDigits(src, s) ==
    IF ~isdigit(peek(src, s))
    THEN errorToken(src, s, "expected digit in exponent")
    ELSE decimalToken(src, AdvanceWhileIn(src, s, Digits \cup {"_"}), TRUE,
            CleanDigits(src, AdvanceWhileIn(src, s, Digits \cup {"_"}), 0))

\* lexNumber from the sign of the exponent on; s is the state after e or E
lexExponentSign(src, s) ==
    IF peek(src, s) \in {"+", "-"}
    THEN lexExponentDigits(src, advance(src, s))
    ELSE lexExponentDigits(src, s)

\* lexNumber from the check for an exponent on
lexExponent(src, s, isFloat) ==
    IF peek(src, s) \in {"e", "E"}
    THEN lexExponentSign(src, advance(src, s))
    ELSE decimalToken(src, s, isFloat, CleanDigits(src, s, 0))

\* lexNumber from the check for a decimal point on
lexFraction(src, s) ==
    IF peek(src, s) = "." /\ peekNext(src, s) # "."
    THEN lexExponent(src,
            AdvanceWhileIn(src, advance(src, s), Digits \cup {"_"}), TRUE)
    ELSE lexExponent(src, s, FALSE)

\* the 0x, 0b and 0o branches of lexNumber; s is the state after the prefix
lexPrefixed(src, s, next) ==
    IF next \in {"x", "X"}
    THEN IF ~isAtEnd(src, s) /\ ~isxdigit(peek(src, s))
         THEN errorToken(src, s, "expected hexadecimal digit after '0x'")
         ELSE PrefixedInt(src,
                AdvanceWhileIn(src, s, {c \in IdentChars : isxdigit(c) \/ c = "_"}),
                16)
    ELSE IF next \in {"b", "B"}
    THEN IF ~isAtEnd(src, s) /\ peek(src, s) # "0" /\ peek(src, s) # "1"
         THEN errorToken(src, s, "expected binary digit after '0b'")
         ELSE PrefixedInt(src, AdvanceWhileIn(src, s, {"0", "1", "_"}), 2)
    ELSE PrefixedInt(src,
            AdvanceWhileIn(src, s, {"0","1","2","3","4","5","6","7","_"}), 8)

lexNumber(src, s) ==
    IF peek(src, s) = "0" /\ ~isAtEnd(src, s)
       /\ peekNext(src, s) \in {"x", "X", "b", "B", "o", "O"}
    THEN lexPrefixed(src, advance(src, advance(src, s)), peekNext(src, s))
    ELSE lexFraction(src, AdvanceWhileIn(src, s, Digits \cup {"_"}))

RECURSIVE StringLoop(_, _)
\* the scanning loop of lexString; `err` is the message of the error return
\* taken inside the loop, "" if the loop ran to its end
StringLoop(src, s) ==
    IF ~isAtEnd(src, s) /\ peek(src, s) # "\""
    THEN IF peek(src, s) = "\\"
         THEN LET s1 == advance(src, s)
              IN  IF isAtEnd(src, s1)
                  THEN [s |-> s1, err |-> "unterminated string literal"]
                  ELSE StringLoop(src, advance(src, s1))
         ELSE IF peek(src, s) = "\n"
              THEN [s |-> s,
                    err |-> "unterminated string literal (newline in string)"]
              ELSE StringLoop(src, advance(src, s))
    ELSE [s |-> s, err |-> ""]

\* lexString after its loop; r is what the loop ended with
lexStringEnd(src, contentStart, r) ==
    IF r.err # "" THEN errorToken(src, r.s, r.err)
    ELSE IF isAtEnd(src, r.s)
         THEN errorToken(src, r.s, "unterminated string literal")
         ELSE Produced(advance(src, r.s),
                  [makeToken(src, advance(src, r.s), "StringLiteral")
                     EXCEPT !.text = Substr(src, contentStart,
                                            r.s.current - contentStart)])

lexString(src, s) ==
    lexStringEnd(src, s.current + 1, StringLoop(src, advance(src, s)))

lexChar(src, s) ==
    LET s1 == advance(src, s)
        b1 == advance(src, s1)
        s2 == IF peek(src, s1) = "\\" THEN advance(src, b1) ELSE b1
    IN  IF isAtEnd(src, s1)
        THEN errorToken(src, s1, "unterminated character literal")
        ELSE IF peek(src, s1) = "\\" /\ isAtEnd(src, b1)
        THEN errorToken(src, b1, "unterminated character literal")
        ELSE IF isAtEnd(src, s2) \/ peek(src, s2) # "'"
        THEN errorToken(src, s2,
                 "unterminated character literal (expected closing ')")
        ELSE Produced(advance(src, s2),
                      makeToken(src, advance(src, s2), "CharLiteral"))

lexAnnotation(src, s) ==
    LET s1 == advance(src, s)
        nameStart == s1.current
        s2 == AdvanceWhileIn(src, s1, IdentChars)
        name == Substr(src, nameStart, s2.current - nameStart)
        back == [s2 EXCEPT !.current = nameStart, !.line = s2.tokenLine,
                           !.column = s2.tokenColumn + 1]
    IN  IF name = "doc" THEN Produced(s2, makeToken(src, s2, "KwDoc"))
        ELSE IF name = "deprecated"
        THEN Produced(s2, makeToken(src, s2, "KwDeprecated"))
        ELSE IF name = "test" THEN Produced(s2, makeToken(src, s2, "KwTest"))
        ELSE Produced(back, makeToken(src, back, "At"))
\* --current_; --column_;
backUp(s) == [s EXCEPT !.current = @ - 1, !.column = @ - 1]

\* the kinds of the operators and punctuation made of a single character
singleCharKind ==
    ("(" :> "LParen") @@ (")" :> "RParen") @@ ("[" :> "LBracket") @@
    ("]" :> "RBracket") @@ ("{" :> "LBrace") @@ ("}" :> "RBrace") @@
    ("," :> "Comma") @@ (";" :> "Semicolon") @@ ("~" :> "Tilde") @@
    ("?" :> "Question") @@ (":" :> "Colon") @@ ("." :> "Dot") @@
    ("+" :> "Plus") @@ ("-" :> "Minus") @@ ("*" :> "Star") @@
    ("/" :> "Slash") @@ ("%" :> "Percent") @@ ("=" :> "Equal") @@
    ("<" :> "Less") @@ (">" :> "Greater") @@ ("&" :> "Ampersand") @@
    ("|" :> "Pipe") @@ ("^" :> "Caret") @@ ("#" :> "Hash")

\* the kinds of the operators made of two characters, by first character
twoCharKind ==
    (":" :> (":" :> "ColonColon")) @@ ("." :> ("." :> "DotDot")) @@
    ("+" :> ("=" :> "PlusEqual")) @@
    ("-" :> ((">" :> "Arrow") @@ ("=" :> "MinusEqual"))) @@
    ("*" :> ("=" :> "StarEqual")) @@ ("/" :> ("=" :> "SlashEqual")) @@
    ("%" :> ("=" :> "PercentEqual")) @@
    ("=" :> (("=" :> "EqualEqual") @@ (">" :> "FatArrow"))) @@
    ("!" :> ("=" :> "BangEqual")) @@
    ("<" :> (("=" :> "LessEqual") @@ ("<" :> "ShiftLeft"))) @@
    (">" :> (("=" :> "GreaterEqual") @@ (">" :> "ShiftRight"))) @@
    ("&" :> ("=" :> "AmpersandEqual")) @@ ("|" :> ("=" :> "PipeEqual")) @@
    ("^" :> ("=" :> "CaretEqual")) @@ ("#" :> ("!" :> "HashBang"))

\* the switch over operators and punctuation at the end of nextToken;
\* s is the state after the first character c was consumed
lexOperator(src, s, c) ==
    LET n == peek(src, s)
        s1 == advance(src, s)
    IN  IF c \in DOMAIN twoCharKind /\ ~isAtEnd(src, s)
           /\ n \in DOMAIN twoCharKind[c]
        THEN IF c = "." /\ ~isAtEnd(src, s1) /\ peek(src, s1) = "."
             THEN Produced(advance(src, s1),
                           makeToken(src, advance(src, s1), "DotDotDot"))
             ELSE Produced(s1, makeToken(src, s1, twoCharKind[c][n]))
        ELSE IF c \in DOMAIN singleCharKind
             THEN Produced(s, makeToken(src, s, singleCharKind[c]))
             ELSE errorToken(src, s, "unexpected character '" \o c \o "'")

\* the branch of nextToken for an apostrophe; s is the state after it
lexApostrophe(src, s) ==
    IF ~isAtEnd(src, s) /\ isalpha(peek(src, s))
    THEN LET s1 == advance(src, s)
         IN  IF ~isAtEnd(src, s1) /\ peek(src, s1) = "'"
             THEN lexChar(src, backUp(s))
             ELSE LET s2 == AdvanceWhileIn(src, s1, IdentChars)
                  IN  Produced(s2, makeToken(src, s2, "Apostrophe"))
    ELSE IF ~isAtEnd(src, s) /\ peek(src, s) = "\\"
         THEN lexChar(src, backUp(s))
         ELSE Produced(s, makeToken(src, s, "Apostrophe"))

\* nextToken after `char c = advance();`: s is the state after c
lexFrom(src, s, c) ==
    IF isalpha(c) \/ c = "_"
    THEN IF c = "_" /\ (isAtEnd(src, s)
                        \/ (~isalnum(peek(src, s)) /\ peek(src, s) # "_"))
         THEN Produced(s, makeToken(src, s, "Underscore"))
         ELSE lexIdentifierOrKeyword(src, s)
    ELSE IF isdigit(c) THEN lexNumber(src, backUp(s))
    ELSE IF c = "\"" THEN lexString(src, backUp(s))
    ELSE IF c = "'" THEN lexApostrophe(src, s)
    ELSE IF c = "@"
    THEN IF ~isAtEnd(src, s) /\ isalpha(peek(src, s))
         THEN lexAnnotation(src, backUp(s))
         ELSE Produced(s, makeToken(src, s, "At"))
    ELSE lexOperator(src, s, c)

\* nextToken from the end-of-input test on; s has the token start set
lexToken(src, s) ==
    IF isAtEnd(src, s) THEN Produced(s, makeToken(src, s, "Eof"))
    ELSE lexFrom(src, advance(src, s), peek(src, s))

\* tokenStart_ = current_; tokenLine_ = line_; tokenColumn_ = column_;
startToken(s) ==
    [s EXCEPT !.tokenStart = s.current, !.tokenLine = s.line,
              !.tokenColumn = s.column]

\* a token producer's result with the diagnostics emitted before it
withDiags(before, r) == [r EXCEPT !.diags = before \o @]

\* nextToken after skipWhitespace(), which returned w
scanAfter(src, w) == withDiags(w.diags, lexToken(src, startToken(w.s)))

\* nextToken when no token is buffered: from skipWhitespace() on
scanToken(src, s) == scanAfter(src, skipWhitespace(src, s))

\* nextToken handing out the buffered token without dropping it
nextTokenKeepsBuffer(src, s) ==
    IF s.hasPeeked
    THEN Produced(s, s.peekedToken)
    ELSE scanToken(src, s)

\* Lexer::nextToken
nextToken(src, s) ==
    IF s.hasPeeked
    THEN Produced([s EXCEPT !.hasPeeked = FALSE], s.peekedToken)
    ELSE scanToken(src, s)

\* peekedToken_ = nextToken(); hasPeeked_ = true;
bufferToken(r) ==
    IF r.threw THEN r
    ELSE [r EXCEPT !.s = [r.s EXCEPT !.peekedToken = r.tok,
                                     !.hasPeeked = TRUE]]

\* Lexer::peekToken
peekToken(src, s) ==
    IF ~s.hasPeeked THEN bufferToken(nextToken(src, s))
    ELSE Produced(s, s.peekedToken)

\* Lexer::saveState
saveState(s) ==
    [current |-> s.current, tokenStart |-> s.tokenStart, line |-> s.line,
     column |-> s.column, tokenLine |-> s.tokenLine,
     tokenColumn |-> s.tokenColumn, hasPeeked |-> s.hasPeeked,
     peekedToken |-> s.peekedToken]

\* restoreState that leaves the lookahead buffer as it is
restoreStateKeepsBuffer(s, st) ==
    [s EXCEPT !.current = st.current, !.tokenStart = st.tokenStart,
              !.line = st.line, !.column = st.column,
              !.tokenLine = st.tokenLine, !.tokenColumn = st.tokenColumn]

\* Lexer::restoreState
restoreState(s, st) ==
    [s EXCEPT !.current = st.current, !.tokenStart = st.tokenStart,
              !.line = st.line, !.column = st.column,
              !.tokenLine = st.tokenLine, !.tokenColumn = st.tokenColumn,
              !.hasPeeked = st.hasPeeked, !.peekedToken = st.peekedToken]
\* Lexer::lexAll, the first n iterations of its loop from state s: the
\* tokens returned by n successive nextToken calls, cut short by a throw
RECURSIVE firstTokens(_, _, _)
firstTokens(src, s, n) ==
    IF n = 0 THEN <<>>
    ELSE LET r == nextToken(src, s)
         IN  IF r.threw THEN <<>>
             ELSE <<r.tok>> \o firstTokens(src, r.s, n - 1)

\* ------------------------------------------------------------------------
\* Parser (lib/Parser/Parser.cpp)
\*
\* A parser state is a record
\*   src, lex     the source buffer and the fields of the Lexer it reads
\*   cur, prev    current_, previous_
\*   diags        the diagnostics emitted so far
\*   status       "ok", or how the call stopped being a normal execution:
\*                "threw"    an exception left the lexer,
\*                "hung"     a loop came back to its head with the parser
\*                           and the lexer exactly as at the previous
\*                           iteration, so it repeats forever,
\*                "ub"       a null pointer was dereferenced: the behaviour
\*                           of the rest of the call is undefined,
\*                "outside"  a branch was taken that the model leaves out
\*   val          the value returned by the last parser function
\* Every parser function takes the state and returns the state after it,
\* with its return value in val.  AST nodes are records with a kind field;
\* a null pointer is Null.
\*
\* The sources of the specifications below are written with the lexemes
\*   func  let  return  match  Void  identifiers  integer literals
\*   ( )  { }  ;  :  ::  =  =>  ->  ,  _
\* and "(" and ")" only occur in the header of a function.  The branches
\* of the parser that only other tokens reach are not modelled; taking one
\* sets the status "outside", which no run of the specifications does
\* (ParserModelCoversRun).
\* ------------------------------------------------------------------------

Null == [kind |-> "Null"]

Val(p, v) == [p EXCEPT !.val = v]

\* the execution stops being a normal one; the token stream reads as ended
\* so that every enclosing loop of the model unwinds
Abort(p, why) ==
    IF p.status # "ok" THEN Val(p, Null)
    ELSE [p EXCEPT !.status = why, !.cur = NoToken, !.val = Null]

\* a branch of the parser that the model leaves out
Outside(p) == Abort(p, "outside")

\* a call made after the execution stopped returns nothing of use
Dead(fn, p) == Val(p, IF fn = "advance" THEN NoToken ELSE Null)

\* Parser::Parser, r being what lexer_.nextToken() returned
primeParser(src, r) ==
    [src |-> src, lex |-> r.s, cur |-> IF r.threw THEN NoToken ELSE r.tok,
     prev |-> NoToken, diags |-> r.diags,
     status |-> IF r.threw THEN "threw" ELSE "ok", val |-> Null]

\* Parser::Parser over a fresh lexer
NewParser(src) == primeParser(src, nextToken(src, NewLexer))

\* Parser::advance, r being what lexer_.nextToken() returned
advanceTo(p, r) ==
    IF r.threw THEN [Abort(p, "threw") EXCEPT !.val = NoToken]
    ELSE [p EXCEPT !.prev = p.cur, !.cur = r.tok, !.lex = r.s,
                   !.diags = @ \o r.diags, !.val = p.cur]

\* Parser::advance
parserAdvance(p) == advanceTo(p, nextToken(p.src, p.lex))

RECURSIVE Parse(_, _)

\* Parser::check
check(p, kind) == p.cur.kind = kind

\* Parser::match
parserMatch(p, kind) ==
    IF check(p, kind) THEN Val(Parse("advance", p), TRUE) ELSE Val(p, FALSE)

\* diag_.emitError(current_.location, message)
emitError(p, message) ==
    IF p.status # "ok" THEN p
    ELSE [p EXCEPT !.diags = Append(@, Diag(message, p.cur.line,
                                            p.cur.column))]

\* Parser::expect
expect(p, kind, message) ==
    IF check(p, kind) /\ p.status = "ok" THEN Parse("advance", p)
    ELSE Val(emitError(p, message \o ", got '" \o p.cur.text \o "'"), p.cur)

\* Parser::expectSemicolon
expectSemicolon(p) == expect(p, "Semicolon", "expected ';'")

\* the state at the head of a loop after an iteration that began in state
\* `before`: an iteration that changed neither the parser's tokens nor the
\* lexer is repeated forever
loopAgain(before, after) ==
    IF /\ after.status = "ok"
       /\ after.lex = before.lex
       /\ after.cur = before.cur
       /\ after.prev = before.prev
    THEN Abort(after, "hung")
    ELSE after

\* Parser::saveState
parserSaveState(p) == [current |-> p.cur, previous |-> p.prev]

\* Parser::restoreState
parserRestoreState(p, state) ==
    [p EXCEPT !.cur = state.current, !.prev = state.previous]

\* the token kinds at which Parser::synchronize stops
SyncKinds ==
    {"KwFunc", "KwLet", "KwConst", "KwStruct", "KwClass", "KwEnum",
     "KwTrait", "KwImpl", "KwReturn", "KwIf", "KwFor", "KwWhile", "KwLoop",
     "KwModule", "KwImport"}

RECURSIVE synchronize(_)
\* Parser::synchronize
synchronize(p) ==
    IF check(p, "Eof") THEN p
    ELSE IF p.prev.kind = "Semicolon" THEN p
    ELSE IF p.cur.kind \in SyncKinds THEN p
    ELSE synchronize(Parse("advance", p))

\* ---- Types ----

RECURSIVE typeListLoop(_, _, _, _)
\* while (!check(closer) && !check(TokenKind::Eof)) over types separated by
\* commas, and the expect(closer) after it: the type arguments of
\* parseNamedOrGenericType and the tuple fields of parseEnumVariants; the
\* types are returned in val
typeListLoop(p, closer, message, types) ==
    IF ~check(p, closer) /\ ~check(p, "Eof")
    THEN LET type == Parse("parseType", p)
             comma == parserMatch(type, "Comma")
             all == Append(types, type.val)
         IN  IF comma.val THEN typeListLoop(comma, closer, message, all)
             ELSE Val(expect(comma, closer, message), all)
    ELSE Val(expect(p, closer, message), types)

RECURSIVE typePathLoop(_, _)
\* while (match(TokenKind::ColonColon)) of parseNamedOrGenericType, r being
\* what the expect(Identifier) before it returned
typePathLoop(r, path) ==
    IF check(r, "ColonColon")
    THEN typePathLoop(expect(Parse("advance", r), "Identifier",
                             "expected type name after '::'"),
                      Append(path, r.val.text))
    ELSE IF check(r, "Less")
    THEN LET typeArgs == typeListLoop(Parse("advance", r), "Greater",
                                      "expected '>' after type arguments",
                                      <<>>)
         IN  Val(typeArgs,
                 [kind |-> "GenericType",
                  base |-> [kind |-> "NamedType",
                            path |-> Append(path, r.val.text)],
                  typeArgs |-> typeArgs.val])
    ELSE Val(r, [kind |-> "NamedType", path |-> Append(path, r.val.text)])

\* Parser::parseNamedOrGenericType
parseNamedOrGenericType(p) ==
    IF check(p, "KwVoid")
    THEN Val(Parse("advance", p), [kind |-> "NamedType", path |-> <<"Void">>])
    ELSE IF check(p, "KwSelfType")
    THEN Val(Parse("advance", p), [kind |-> "NamedType", path |-> <<"Self">>])
    ELSE typePathLoop(expect(p, "Identifier", "expected type name"), <<>>)

\* Parser::parseType
parseType(p) ==
    IF p.cur.kind \in {"KwRef", "Ampersand", "KwMut", "LParen"}
    THEN Outside(p)
    ELSE parseNamedOrGenericType(p)

\* ---- Statements ----

RECURSIVE statementLoop(_, _)
\* while (!check(RBrace) && !check(Eof)) of parseBlock and parseBlockExpr
\* and the expect(RBrace) after it; the statements are returned in val
statementLoop(p, stmts) ==
    IF ~check(p, "RBrace") /\ ~check(p, "Eof")
    THEN LET r == Parse("parseStatement", p)
         IN  statementLoop(loopAgain(p, r),
                           IF r.val # Null THEN Append(stmts, r.val)
                           ELSE stmts)
    ELSE Val(expect(p, "RBrace", "expected '}'"), stmts)

\* Parser::parseBlock
parseBlock(p) ==
    LET r == statementLoop(expect(p, "LBrace", "expected '{'"), <<>>)
    IN  Val(r, [kind |-> "BlockStmt", statements |-> r.val])

\* Parser::parseBlockExpr
parseBlockExpr(p) ==
    LET r == statementLoop(expect(p, "LBrace", "expected '{'"), <<>>)
    IN  Val(r, [kind |-> "BlockExpr", statements |-> r.val,
                finalExpr |-> Null])

\* Parser::parseLetStmt
parseLetStmt(p) ==
    LET mut == parserMatch(expect(p, "KwLet", "expected 'let'"), "KwMut")
        nameTok == expect(mut, "Identifier", "expected variable name")
        type == Parse("parseType",
                      expect(nameTok, "Colon",
                             "expected ':' after variable name (Flux requires explicit types)"))
        eq == parserMatch(type, "Equal")
        init == IF eq.val THEN Parse("parseExpression", eq)
                ELSE Val(eq, Null)
    IN  Val(expectSemicolon(init),
            [kind |-> "LetStmt", name |-> nameTok.val.text,
             type |-> type.val, init |-> init.val, isMutable |-> mut.val])

\* Parser::parseReturnStmt
parseReturnStmt(p) ==
    LET ret == expect(p, "KwReturn", "expected 'return'")
        value == IF ~check(ret, "Semicolon") /\ ~check(ret, "RBrace")
                 THEN Parse("parseExpression", ret)
                 ELSE Val(ret, Null)
    IN  Val(expectSemicolon(value),
            [kind |-> "ReturnStmt", value |-> value.val])

\* Parser::parseMatchArm
parseMatchArm(p) ==
    LET pattern == Parse("parsePattern", p)
        if == parserMatch(pattern, "KwIf")
        guard == IF if.val THEN Parse("parseExpression", if)
                 ELSE Val(if, Null)
        arrow == expect(guard, "FatArrow", "expected '=>' in match arm")
        body == IF check(arrow, "LBrace") THEN Parse("parseBlockExpr", arrow)
                ELSE Parse("parseExpression", arrow)
    IN  Val(body, [pattern |-> pattern.val, guard |-> guard.val,
                   body |-> body.val])

RECURSIVE armLoop(_, _)
\* while (!check(RBrace) && !check(Eof)) of parseMatchStmt and
\* parseMatchExpr and the expect(RBrace) after it; the arms are returned in
\* val
armLoop(p, arms) ==
    IF ~check(p, "RBrace") /\ ~check(p, "Eof")
    THEN LET arm == parseMatchArm(p)
         IN  armLoop(loopAgain(p, parserMatch(arm, "Comma")),
                     Append(arms, arm.val))
    ELSE Val(expect(p, "RBrace", "expected '}' after match arms"), arms)

\* Parser::parseMatchStmt
parseMatchStmt(p) ==
    LET scrutinee == Parse("parseExpression",
                           expect(p, "KwMatch", "expected 'match'"))
        arms == armLoop(expect(scrutinee, "LBrace",
                               "expected '{' in match statement"), <<>>)
    IN  Val(arms, [kind |-> "MatchStmt", scrutinee |-> scrutinee.val,
                   arms |-> arms.val])

\* Parser::parseMatchExpr
parseMatchExpr(p) ==
    LET scrutinee == Parse("parseExpression",
                           expect(p, "KwMatch", "expected 'match'"))
        arms == armLoop(expect(scrutinee, "LBrace",
                               "expected '{' in match expression"), <<>>)
    IN  Val(arms, [kind |-> "MatchExpr", scrutinee |-> scrutinee.val,
                   arms |-> arms.val])

\* Parser::parseConstStmt
parseConstStmt(p) ==
    LET nameTok == expect(expect(p, "KwConst", "expected 'const'"),
                          "Identifier", "expected constant name")
        type == Parse("parseType",
                      expect(nameTok, "Colon",
                             "expected ':' after constant name"))
        value == Parse("parseExpression",
                       expect(type, "Equal",
                              "expected '=' in constant declaration"))
    IN  Val(expectSemicolon(value),
            [kind |-> "ConstStmt", name |-> nameTok.val.text,
             type |-> type.val, value |-> value.val])

\* Parser::parseIfStmt; the parseIfStmt of an `else if` is the
\* parseStatement that calls it
parseIfStmt(p) ==
    LET condition == Parse("parseExpression",
                           expect(p, "KwIf", "expected 'if'"))
        thenBranch == Parse("parseBlock", condition)
        else == parserMatch(thenBranch, "KwElse")
        elseBranch == IF ~else.val THEN Val(else, Null)
                      ELSE IF check(else, "KwIf")
                      THEN Parse("parseStatement", else)
                      ELSE Parse("parseBlock", else)
    IN  Val(elseBranch,
            [kind |-> "IfStmt", condition |-> condition.val,
             thenBranch |-> thenBranch.val, elseBranch |-> elseBranch.val])

\* Parser::parseWhileStmt
parseWhileStmt(p) ==
    LET condition == Parse("parseExpression",
                           expect(p, "KwWhile", "expected 'while'"))
        body == Parse("parseBlock", condition)
    IN  Val(body, [kind |-> "WhileStmt", condition |-> condition.val,
                   body |-> body.val])

\* Parser::parseLoopStmt
parseLoopStmt(p) ==
    LET body == Parse("parseBlock", expect(p, "KwLoop", "expected 'loop'"))
    IN  Val(body, [kind |-> "LoopStmt", body |-> body.val])

\* Parser::parseStatement
parseStatement(p) ==
    CASE check(p, "KwLet") -> parseLetStmt(p)
      [] check(p, "KwConst") -> parseConstStmt(p)
      [] check(p, "KwReturn") -> parseReturnStmt(p)
      [] check(p, "KwIf") -> parseIfStmt(p)
      [] check(p, "KwMatch") -> parseMatchStmt(p)
      [] check(p, "KwWhile") -> parseWhileStmt(p)
      [] check(p, "KwLoop") -> parseLoopStmt(p)
      [] check(p, "KwBreak") ->
            Val(expectSemicolon(Parse("advance", p)), [kind |-> "BreakStmt"])
      [] check(p, "KwContinue") ->
            Val(expectSemicolon(Parse("advance", p)),
                [kind |-> "ContinueStmt"])
      [] check(p, "LBrace") -> Parse("parseBlock", p)
      [] check(p, "KwFor") -> Outside(p)
      [] OTHER ->
            LET r == Parse("parseExpression", p)
            IN  IF r.val = Null THEN Val(synchronize(r), Null)
                ELSE Val(expectSemicolon(r),
                         [kind |-> "ExprStmt", expr |-> r.val])

\* ---- Patterns ----

RECURSIVE patternFieldLoop(_, _)
\* the loop of parsePattern over the named fields of a constructor pattern
\* and the expect(RBrace) after it; the fields are returned in val
patternFieldLoop(p, fields) ==
    IF ~check(p, "RBrace") /\ ~check(p, "Eof")
    THEN LET fieldTok == expect(p, "Identifier", "expected field name")
             colon == parserMatch(fieldTok, "Colon")
             pattern == IF colon.val THEN Parse("parsePattern", colon)
                        ELSE Val(colon, [kind |-> "IdentPattern",
                                         name |-> fieldTok.val.text])
             comma == parserMatch(pattern, "Comma")
             all == Append(fields, [name |-> fieldTok.val.text,
                                    pattern |-> pattern.val])
         IN  IF comma.val THEN patternFieldLoop(comma, all)
             ELSE Val(expect(comma, "RBrace",
                             "expected '}' after struct pattern"), all)
    ELSE Val(expect(p, "RBrace", "expected '}' after struct pattern"),
             fields)

\* std::string_view::substr(pos, count) of text when count is the size_t
\* value size() - 2: below two characters the subtraction wraps to a count
\* larger than any string and the rest of the text is taken; pos > size()
\* throws std::out_of_range
substrThrows(text, pos) == pos > Len(text)

substr(text, pos) ==
    LET count == IF Len(text) >= 2 THEN Len(text) - 2 ELSE Len(text) - pos
        taken == IF count < Len(text) - pos THEN count ELSE Len(text) - pos
    IN  SubSeq(text, pos + 1, pos + taken)

\* Parser::parsePattern, the string literal case: p is the state after
\* `auto tok = advance();`, tok being in val
stringPattern(p) ==
    IF p.status # "ok" THEN p
    ELSE IF substrThrows(p.val.text, 1) THEN Abort(p, "threw")
    ELSE Val(p, [kind |-> "LiteralPattern",
                 literal |-> [kind |-> "StringLiteralExpr",
                              value |-> substr(p.val.text, 1)]])

RECURSIVE patternListLoop(_, _, _)
\* while (!check(RParen) && !check(Eof)) of parsePattern over the elements
\* of a tuple pattern or the positional fields of a constructor pattern,
\* and the expect(RParen) after it; the patterns are returned in val
patternListLoop(p, message, elements) ==
    IF ~check(p, "RParen") /\ ~check(p, "Eof")
    THEN LET pattern == Parse("parsePattern", p)
             comma == parserMatch(pattern, "Comma")
             all == Append(elements, pattern.val)
         IN  IF comma.val THEN patternListLoop(comma, message, all)
             ELSE Val(expect(comma, "RParen", message), all)
    ELSE Val(expect(p, "RParen", message), elements)

RECURSIVE patternPathLoop(_, _)
\* parsePattern from the loop over the segments of a constructor path on
patternPathLoop(p, path) ==
    IF check(p, "ColonColon")
    THEN LET seg == expect(Parse("advance", p), "Identifier",
                           "expected identifier")
         IN  patternPathLoop(seg, Append(path, seg.val.text))
    ELSE LET positional ==
                 IF check(p, "LParen")
                 THEN patternListLoop(Parse("advance", p),
                          "expected ')' after constructor pattern", <<>>)
                 ELSE Val(p, <<>>)
             fields == IF check(positional, "LBrace")
                       THEN patternFieldLoop(Parse("advance", positional),
                                             <<>>)
                       ELSE Val(positional, <<>>)
         IN  Val(fields, [kind |-> "ConstructorPattern", path |-> path,
                          positionalFields |-> positional.val,
                          namedFields |-> fields.val])

\* Parser::parsePattern
parsePattern(p) ==
    CASE check(p, "Underscore") ->
            Val(Parse("advance", p), [kind |-> "WildcardPattern"])
      [] check(p, "IntLiteral") ->
            Val(Parse("advance", p),
                [kind |-> "LiteralPattern",
                 literal |-> [kind |-> "IntLiteralExpr",
                              value |-> p.cur.intValue]])
      [] check(p, "StringLiteral") -> stringPattern(Parse("advance", p))
      [] check(p, "BoolLiteral") ->
            Val(Parse("advance", p),
                [kind |-> "LiteralPattern",
                 literal |-> [kind |-> "BoolLiteralExpr",
                              value |-> p.cur.intValue # 0]])
      [] check(p, "LParen") ->
            LET elements == patternListLoop(Parse("advance", p),
                                "expected ')' after tuple pattern", <<>>)
            IN  Val(elements, [kind |-> "TuplePattern",
                               elements |-> elements.val])
      [] check(p, "Identifier") ->
            LET tok == Parse("advance", p)
            IN  IF check(tok, "ColonColon")
                THEN patternPathLoop(tok, <<p.cur.text>>)
                ELSE Val(tok, [kind |-> "IdentPattern",
                               name |-> p.cur.text])
      [] OTHER ->
            Val(emitError(p, "expected pattern"),
                [kind |-> "WildcardPattern"])

\* ---- Expressions ----

\* parseAdditive and parseMultiplicative with each other's operators
BinaryLevelsAdditiveTightest ==
    << [name |-> "parseMultiplicative",
        ops |-> ("Plus" :> "Add") @@ ("Minus" :> "Sub")],
       [name |-> "parseAdditive",
        ops |-> ("Star" :> "Mul") @@ ("Slash" :> "Div") @@
                ("Percent" :> "Mod")],
       [name |-> "parseShift",
        ops |-> ("ShiftLeft" :> "ShiftLeft") @@
                ("ShiftRight" :> "ShiftRight")],
       [name |-> "parseBitwiseAnd", ops |-> ("Ampersand" :> "BitAnd")],
       [name |-> "parseBitwiseXor", ops |-> ("Caret" :> "BitXor")],
       [name |-> "parseBitwiseOr", ops |-> ("Pipe" :> "BitOr")],
       [name |-> "parseComparison",
        ops |-> ("Less" :> "Less") @@ ("LessEqual" :> "LessEqual") @@
                ("Greater" :> "Greater") @@
                ("GreaterEqual" :> "GreaterEqual")],
       [name |-> "parseEquality",
        ops |-> ("EqualEqual" :> "Equal") @@ ("BangEqual" :> "NotEqual")],
       [name |-> "parseAnd", ops |-> ("KwAnd" :> "And")],
       [name |-> "parseOr", ops |-> ("KwOr" :> "Or")] >>

\* parseMultiplicative, parseAdditive, ... parseOr, from the one that binds
\* tightest: each calls the one before it for its operands (the first calls
\* parseUnary) and loops over its operators, given by token kind
BinaryLevels ==
    << [name |-> "parseMultiplicative",
        ops |-> ("Star" :> "Mul") @@ ("Slash" :> "Div") @@
                ("Percent" :> "Mod")],
       [name |-> "parseAdditive",
        ops |-> ("Plus" :> "Add") @@ ("Minus" :> "Sub")],
       [name |-> "parseShift",
        ops |-> ("ShiftLeft" :> "ShiftLeft") @@
                ("ShiftRight" :> "ShiftRight")],
       [name |-> "parseBitwiseAnd", ops |-> ("Ampersand" :> "BitAnd")],
       [name |-> "parseBitwiseXor", ops |-> ("Caret" :> "BitXor")],
       [name |-> "parseBitwiseOr", ops |-> ("Pipe" :> "BitOr")],
       [name |-> "parseComparison",
        ops |-> ("Less" :> "Less") @@ ("LessEqual" :> "LessEqual") @@
                ("Greater" :> "Greater") @@
                ("GreaterEqual" :> "GreaterEqual")],
       [name |-> "parseEquality",
        ops |-> ("EqualEqual" :> "Equal") @@ ("BangEqual" :> "NotEqual")],
       [name |-> "parseAnd", ops |-> ("KwAnd" :> "And")],
       [name |-> "parseOr", ops |-> ("KwOr" :> "Or")] >>

BinaryNames == {BinaryLevels[i].name : i \in DOMAIN BinaryLevels}

RECURSIVE binaryLoop(_, _)
\* the while loop of binary level i, left being the state whose val is the
\* left operand
binaryLoop(i, left) ==
    IF left.cur.kind \in DOMAIN BinaryLevels[i].ops
    THEN LET right == Parse(IF i = 1 THEN "parseUnary"
                            ELSE BinaryLevels[i - 1].name,
                            Parse("advance", left))
         IN  binaryLoop(i, Val(right,
                 [kind |-> "BinaryExpr",
                  op |-> BinaryLevels[i].ops[left.cur.kind],
                  lhs |-> left.val, rhs |-> right.val]))
    ELSE left

RECURSIVE binaryLevel(_, _, _)
\* the binary level `top`, from the return of level i - 1 (of parseUnary if
\* i = 1) on: `auto left = parseNext();` has returned the state left, and
\* the loops of the levels i .. top run on it one after the other
binaryLevel(i, top, left) ==
    IF i > top \/ left.status # "ok" THEN left
    ELSE binaryLevel(i + 1, top, binaryLoop(i, left))

RECURSIVE pathLoop(_, _)
\* while (match(TokenKind::ColonColon)) of parsePrimary and parsePostfix
\* and the PathExpr made after it
pathLoop(p, segments) ==
    IF check(p, "ColonColon")
    THEN LET seg == expect(Parse("advance", p), "Identifier",
                           "expected identifier after '::'")
         IN  pathLoop(seg, Append(segments, seg.val.text))
    ELSE Val(p, [kind |-> "PathExpr", segments |-> segments])

\* the tokens at which the postfix loop of parseUnary goes round again
PostfixKinds == {"LParen", "LBracket", "Dot", "ColonColon", "Question",
                 "KwAs"}

RECURSIVE argumentLoop(_, _)
\* while (!check(RParen) && !check(Eof)) of parseCallArguments and the
\* expect(RParen) after it; the arguments are returned in val
argumentLoop(p, args) ==
    IF ~check(p, "RParen") /\ ~check(p, "Eof")
    THEN LET arg == Parse("parseExpression", p)
             comma == parserMatch(arg, "Comma")
             all == Append(args, arg.val)
         IN  IF comma.val THEN argumentLoop(comma, all)
             ELSE Val(expect(comma, "RParen", "expected ')' after arguments"),
                      all)
    ELSE Val(expect(p, "RParen", "expected ')' after arguments"), args)

\* Parser::parseCallArguments(callee), callee being p.val
parseCallArguments(p) ==
    LET args == argumentLoop(expect(p, "LParen", "expected '('"), <<>>)
    IN  Val(args, [kind |-> "CallExpr", callee |-> p.val,
                   arguments |-> args.val])

\* Parser::parsePostfix(left), left being p.val
parsePostfix(p) ==
    IF check(p, "LParen") THEN parseCallArguments(p)
    ELSE IF check(p, "ColonColon")
    THEN LET nextTok == expect(Parse("advance", p), "Identifier",
                               "expected identifier after '::'")
             segments == IF p.val.kind = "IdentExpr" THEN <<p.val.name>>
                         ELSE IF p.val.kind = "PathExpr"
                         THEN p.val.segments
                         ELSE <<>>
         IN  IF p.val = Null THEN Abort(nextTok, "ub")
             ELSE pathLoop(nextTok, Append(segments, nextTok.val.text))
    ELSE IF p.cur.kind \in PostfixKinds THEN Outside(p)
    ELSE p

\* the lookahead of parsePrimary at `Name {`: the state after both
\* restoreState calls, with isStructLiteral in val
structLookahead(p) ==
    LET brace == Parse("advance", p)
        ident == IF check(brace, "Identifier") THEN Parse("advance", brace)
                 ELSE brace
    IN  IF ident.status # "ok" THEN Val(ident, FALSE)
        ELSE Val([parserRestoreState(ident, parserSaveState(p))
                    EXCEPT !.lex = restoreState(ident.lex, saveState(p.lex))],
                 IF check(brace, "Identifier") THEN check(ident, "Colon")
                 ELSE check(brace, "RBrace"))

RECURSIVE structFieldLoop(_, _, _)
\* the loop of parsePrimary over the fields of a struct literal, the
\* expect(RBrace) after it and the StructLiteralExpr made
structFieldLoop(p, name, fields) ==
    IF ~check(p, "RBrace") /\ ~check(p, "Eof")
    THEN LET fieldName == expect(p, "Identifier", "expected field name")
             value == Parse("parseExpression",
                            expect(fieldName, "Colon",
                                   "expected ':' after field name"))
             comma == parserMatch(value, "Comma")
             all == Append(fields, [name |-> fieldName.val.text,
                                    value |-> value.val])
         IN  IF comma.val THEN structFieldLoop(comma, name, all)
             ELSE Val(expect(comma, "RBrace",
                             "expected '}' after struct literal"),
                      [kind |-> "StructLiteralExpr", typeName |-> name,
                       fields |-> all])
    ELSE Val(expect(p, "RBrace", "expected '}' after struct literal"),
             [kind |-> "StructLiteralExpr", typeName |-> name,
              fields |-> fields])

\* Parser::parsePrimary
parsePrimary(p) ==
    CASE check(p, "IntLiteral") ->
            Val(Parse("advance", p),
                [kind |-> "IntLiteralExpr", value |-> p.cur.intValue])
      [] check(p, "Identifier") ->
            LET tok == Parse("advance", p)
                look == structLookahead(tok)
            IN  IF check(tok, "ColonColon")
                THEN pathLoop(tok, <<p.cur.text>>)
                ELSE IF check(tok, "LBrace") /\ look.val
                THEN structFieldLoop(Parse("advance", look), p.cur.text,
                                     <<>>)
                ELSE IF check(tok, "LBrace")
                THEN Val(look, [kind |-> "IdentExpr", name |-> p.cur.text])
                ELSE Val(tok, [kind |-> "IdentExpr", name |-> p.cur.text])
      [] check(p, "LBrace") -> Parse("parseBlockExpr", p)
      [] check(p, "KwMatch") -> parseMatchExpr(p)
      [] check(p, "Underscore") ->
            Val(Parse("advance", p), [kind |-> "IdentExpr", name |-> "_"])
      [] p.cur.kind \in {"KwTrue", "KwFalse"} ->
            Val(Parse("advance", p),
                [kind |-> "BoolLiteralExpr", value |-> check(p, "KwTrue")])
      [] p.cur.kind \in {"FloatLiteral", "StringLiteral", "CharLiteral",
                         "LParen", "KwIf", "Pipe"} ->
            Outside(p)
      [] OTHER ->
            Val(emitError(p, "expected expression, got '" \o p.cur.text
                             \o "'"),
                Null)

RECURSIVE postfixLoop(_)
\* while (true) of parseUnary, p being the state whose val is expr
postfixLoop(p) ==
    LET r == parsePostfix(p)
    IN  IF r.cur.kind \notin PostfixKinds THEN r ELSE postfixLoop(r)

\* Parser::parseUnary
parseUnary(p) ==
    IF p.cur.kind \in {"Minus", "KwNot", "Tilde", "KwRef", "KwMut",
                       "KwMove", "KwAwait"}
    THEN Outside(p)
    ELSE postfixLoop(parsePrimary(p))

\* Parser::parseOr, parseAnd, parseEquality, parseComparison,
\* parseBitwiseOr, parseBitwiseXor, parseBitwiseAnd, parseShift,
\* parseAdditive, parseMultiplicative
parseBinary(fn, p) ==
    binaryLevel(1, CHOOSE i \in DOMAIN BinaryLevels :
                       BinaryLevels[i].name = fn,
                parseUnary(p))

\* the compound assignment operators of parseAssignment, by token kind
CompoundAssignOps ==
    ("PlusEqual" :> "AddAssign") @@ ("MinusEqual" :> "SubAssign") @@
    ("StarEqual" :> "MulAssign") @@ ("SlashEqual" :> "DivAssign") @@
    ("PercentEqual" :> "ModAssign") @@ ("AmpersandEqual" :> "AndAssign") @@
    ("PipeEqual" :> "OrAssign") @@ ("CaretEqual" :> "XorAssign")

\* Parser::parseAssignment
parseAssignment(p) ==
    LET expr == Parse("parseOr", p)
        value == Parse("parseAssignment", Parse("advance", expr))
    IN  IF check(expr, "Equal")
        THEN Val(value, [kind |-> "AssignExpr", target |-> expr.val,
                         value |-> value.val])
        ELSE IF expr.cur.kind \in DOMAIN CompoundAssignOps
        THEN Val(value, [kind |-> "CompoundAssignExpr",
                         op |-> CompoundAssignOps[expr.cur.kind],
                         target |-> expr.val, value |-> value.val])
        ELSE expr

\* ---- Declarations and the module ----

\* SourceLocation of a token
Location(tok) == [line |-> tok.line, column |-> tok.column]

RECURSIVE traitBoundLoop(_, _)
\* while (match(TokenKind::Plus)) of parseGenericParams over the trait
\* bounds after the first; the bounds are returned in val
traitBoundLoop(p, bounds) ==
    LET plus == parserMatch(p, "Plus")
        boundTok == expect(plus, "Identifier", "expected trait bound")
    IN  IF ~plus.val THEN Val(plus, bounds)
        ELSE traitBoundLoop(boundTok, Append(bounds, boundTok.val.text))

\* one iteration of the loop of parseGenericParams up to params.push_back:
\* a lifetime parameter or a type parameter with its trait bounds
parseGenericParam(p) ==
    IF check(p, "Apostrophe")
    THEN LET nameTok == expect(Parse("advance", p), "Identifier",
                               "expected lifetime name")
         IN  Val(nameTok, [name |-> "", lifetime |-> nameTok.val.text,
                           traitBounds |-> <<>>,
                           location |-> Location(p.cur)])
    ELSE LET nameTok == expect(p, "Identifier",
                               "expected type parameter name")
             colon == parserMatch(nameTok, "Colon")
             boundTok == expect(colon, "Identifier", "expected trait bound")
             bounds == IF colon.val
                       THEN traitBoundLoop(boundTok, <<boundTok.val.text>>)
                       ELSE Val(colon, <<>>)
         IN  Val(bounds, [name |-> nameTok.val.text, lifetime |-> "",
                          traitBounds |-> bounds.val,
                          location |-> Location(p.cur)])

RECURSIVE genericParamLoop(_, _)
\* while (!check(Greater) && !check(Eof)) of parseGenericParams; the
\* parameters are returned in val
genericParamLoop(p, params) ==
    IF check(p, "Greater") \/ check(p, "Eof") THEN Val(p, params)
    ELSE LET param == parseGenericParam(p)
             comma == parserMatch(param, "Comma")
         IN  IF comma.val
             THEN genericParamLoop(comma, Append(params, param.val))
             ELSE Val(comma, Append(params, param.val))

\* Parser::parseGenericParams
parseGenericParams(p) ==
    LET less == parserMatch(p, "Less")
        params == genericParamLoop(less, <<>>)
    IN  IF ~less.val THEN Val(less, <<>>)
        ELSE Val(expect(params, "Greater",
                        "expected '>' after generic parameters"),
                 params.val)

\* Parser::parseFuncParam
parseFuncParam(p) ==
    IF p.cur.kind \in {"KwMut", "KwRef", "KwSelf"} THEN Outside(p)
    ELSE LET nameTok == expect(p, "Identifier", "expected parameter name")
             type == Parse("parseType",
                           expect(nameTok, "Colon",
                                  "expected ':' after parameter name"))
         IN  Val(type, [name |-> nameTok.val.text, type |-> type.val])

RECURSIVE funcParamLoop(_, _)
\* while (match(TokenKind::Comma)) of parseFuncParams
funcParamLoop(p, params) ==
    LET comma == parserMatch(p, "Comma")
        param == parseFuncParam(comma)
    IN  IF ~comma.val \/ check(comma, "RParen") THEN Val(comma, params)
        ELSE funcParamLoop(param, Append(params, param.val))

\* Parser::parseFuncParams
parseFuncParams(p) ==
    IF check(p, "RParen") THEN Val(p, <<>>)
    ELSE LET param == parseFuncParam(p)
         IN  funcParamLoop(param, <<param.val>>)

\* Parser::parseFuncDecl(isAsync = false)
parseFuncDecl(p) ==
    LET nameTok == expect(expect(p, "KwFunc", "expected 'func'"),
                          "Identifier", "expected function name")
        generics == Parse("parseGenericParams", nameTok)
        params == parseFuncParams(
                      expect(generics, "LParen",
                             "expected '(' in function declaration"))
        arrow == parserMatch(expect(params, "RParen",
                                    "expected ')' after parameters"),
                             "Arrow")
        ret == IF arrow.val THEN Parse("parseType", arrow)
               ELSE Val(arrow, Null)
        body == IF check(ret, "LBrace") THEN Parse("parseBlock", ret)
                ELSE Val(expectSemicolon(ret), Null)
    IN  Val(body, [kind |-> "FuncDecl", name |-> nameTok.val.text,
                   genericParams |-> generics.val, params |-> params.val,
                   returnType |-> ret.val, body |-> body.val,
                   isAsync |-> FALSE, visibility |-> "Private",
                   location |-> Location(p.cur)])

RECURSIVE fieldLoop(_, _, _)
\* the loop of parseStructFields, and of parseClassFields (inClass) over
\* fields without a visibility modifier; the fields are returned in val
fieldLoop(p, inClass, fields) ==
    IF ~check(p, "RBrace") /\ ~check(p, "Eof")
    THEN LET nameTok == expect(p, "Identifier", "expected field name")
             type == Parse("parseType",
                           expect(nameTok, "Colon",
                                  "expected ':' after field name"))
             comma == parserMatch(type, "Comma")
             all == Append(fields, [name |-> nameTok.val.text,
                                    type |-> type.val])
         IN  IF inClass /\ p.cur.kind \in {"KwPublic", "KwPub", "KwPrivate"}
             THEN Outside(p)
             ELSE IF comma.val THEN fieldLoop(comma, inClass, all)
             ELSE Val(comma, all)
    ELSE Val(p, fields)

\* Parser::parseStructDecl and Parser::parseStructFields
parseStructDecl(p) ==
    LET nameTok == expect(expect(p, "KwStruct", "expected 'struct'"),
                          "Identifier", "expected struct name")
        generics == Parse("parseGenericParams", nameTok)
        fields == fieldLoop(expect(generics, "LBrace",
                                   "expected '{' in struct declaration"),
                            FALSE, <<>>)
    IN  Val(expect(fields, "RBrace", "expected '}' after struct fields"),
            [kind |-> "StructDecl", name |-> nameTok.val.text,
             genericParams |-> generics.val, fields |-> fields.val,
             location |-> Location(p.cur)])

\* Parser::parseClassDecl and Parser::parseClassFields
parseClassDecl(p) ==
    LET nameTok == expect(expect(p, "KwClass", "expected 'class'"),
                          "Identifier", "expected class name")
        generics == Parse("parseGenericParams", nameTok)
        fields == fieldLoop(expect(generics, "LBrace",
                                   "expected '{' in class declaration"),
                            TRUE, <<>>)
    IN  Val(expect(fields, "RBrace", "expected '}' after class fields"),
            [kind |-> "ClassDecl", name |-> nameTok.val.text,
             genericParams |-> generics.val, fields |-> fields.val,
             methods |-> <<>>, location |-> Location(p.cur)])

RECURSIVE parseEnumVariants(_, _)
\* Parser::parseEnumVariants over unit and tuple variants; the variants are
\* returned in val
parseEnumVariants(p, variants) ==
    IF ~check(p, "RBrace") /\ ~check(p, "Eof")
    THEN LET nameTok == expect(p, "Identifier", "expected variant name")
             paren == parserMatch(nameTok, "LParen")
             payload == IF paren.val
                        THEN typeListLoop(paren, "RParen",
                               "expected ')' after tuple variant fields",
                               <<>>)
                        ELSE IF check(paren, "LBrace") THEN Outside(paren)
                        ELSE Val(paren, <<>>)
             comma == parserMatch(payload, "Comma")
             all == Append(variants,
                           [name |-> nameTok.val.text,
                            variantKind |-> IF paren.val THEN "Tuple"
                                            ELSE "Unit",
                            tupleFields |-> payload.val,
                            structFields |-> <<>>])
         IN  IF comma.val THEN parseEnumVariants(comma, all)
             ELSE Val(comma, all)
    ELSE Val(p, variants)

\* Parser::parseEnumDecl
parseEnumDecl(p) ==
    LET nameTok == expect(expect(p, "KwEnum", "expected 'enum'"),
                          "Identifier", "expected enum name")
        generics == Parse("parseGenericParams", nameTok)
        variants == parseEnumVariants(
                        expect(generics, "LBrace",
                               "expected '{' in enum declaration"), <<>>)
    IN  Val(expect(variants, "RBrace", "expected '}' after enum variants"),
            [kind |-> "EnumDecl", name |-> nameTok.val.text,
             genericParams |-> generics.val, variants |-> variants.val,
             location |-> Location(p.cur)])

RECURSIVE traitMethodLoop(_, _)
\* while (!check(RBrace) && !check(Eof)) of parseTraitDecl and the
\* expect(RBrace) after it; the methods are returned in val
traitMethodLoop(p, methods) ==
    IF ~check(p, "RBrace") /\ ~check(p, "Eof")
    THEN IF check(p, "KwAsync") THEN Outside(p)
         ELSE IF check(p, "KwFunc")
         THEN LET method == Parse("parseFuncDecl", p)
              IN  traitMethodLoop(method, Append(methods, method.val))
         ELSE traitMethodLoop(
                  Parse("advance",
                        emitError(p, "expected method declaration in trait")),
                  methods)
    ELSE Val(expect(p, "RBrace", "expected '}' after trait methods"),
             methods)

\* Parser::parseTraitDecl of a trait without super traits
parseTraitDecl(p) ==
    LET nameTok == expect(expect(p, "KwTrait", "expected 'trait'"),
                          "Identifier", "expected trait name")
        generics == Parse("parseGenericParams", nameTok)
        methods == traitMethodLoop(
                       expect(generics, "LBrace",
                              "expected '{' in trait declaration"), <<>>)
    IN  IF check(generics, "Colon") THEN Outside(generics)
        ELSE Val(methods,
                 [kind |-> "TraitDecl", name |-> nameTok.val.text,
                  genericParams |-> generics.val, superTraits |-> <<>>,
                  methods |-> methods.val, location |-> Location(p.cur)])

\* Parser::parseTypeAliasDecl
parseTypeAliasDecl(p) ==
    LET nameTok == expect(expect(p, "KwType", "expected 'type'"),
                          "Identifier", "expected type alias name")
        generics == Parse("parseGenericParams", nameTok)
        aliasedType == Parse("parseType",
                             expect(generics, "Equal",
                                    "expected '=' in type alias"))
    IN  Val(expectSemicolon(aliasedType),
            [kind |-> "TypeAliasDecl", name |-> nameTok.val.text,
             genericParams |-> generics.val,
             aliasedType |-> aliasedType.val,
             location |-> Location(p.cur)])

\* Parser::parseDeclaration
parseDeclaration(p) ==
    CASE check(p, "KwFunc") -> parseFuncDecl(p)
      [] check(p, "KwStruct") -> parseStructDecl(p)
      [] check(p, "KwClass") -> parseClassDecl(p)
      [] check(p, "KwEnum") -> parseEnumDecl(p)
      [] check(p, "KwTrait") -> parseTraitDecl(p)
      [] check(p, "KwType") -> parseTypeAliasDecl(p)
      [] p.cur.kind \in {"At", "KwDoc", "KwDeprecated", "KwTest", "Hash",
                         "HashBang", "KwAsync", "KwImpl"} -> Outside(p)
      [] p.cur.kind \in {"KwPub", "KwPublic", "KwPrivate"} ->
            Parse("parseDeclaration", Parse("advance", p))
      [] p.cur.kind \in {"KwLet", "KwConst"} ->
            Val(synchronize(emitError(p,
                  "top-level let/const statements are not yet supported outside functions")),
                Null)
      [] OTHER ->
            Val(synchronize(emitError(p,
                  "expected declaration (func, struct, class, enum, trait, impl, type)")),
                Null)

RECURSIVE declLoop(_, _)
\* while (!check(TokenKind::Eof)) of parseModule
declLoop(p, decls) ==
    IF check(p, "Eof")
    THEN Val(p, [kind |-> "Module", name |-> "", imports |-> <<>>,
                 declarations |-> decls])
    ELSE LET r == parseDeclaration(p)
         IN  IF r.val # Null THEN declLoop(r, Append(decls, r.val))
             ELSE IF ~check(r, "Eof")
                  THEN declLoop(Parse("advance", r), decls)
                  ELSE declLoop(r, decls)

\* Parser::parseModule
parseModule(p) ==
    IF p.cur.kind \in {"KwModule", "KwImport"} THEN Outside(p)
    ELSE declLoop(p, <<>>)

\* the parser function named fn applied to the state p
Parse(fn, p) ==
    IF p.status # "ok" THEN Dead(fn, p)
    ELSE CASE fn = "advance" -> parserAdvance(p)
           [] fn = "parseType" -> parseType(p)
           [] fn = "parseBlock" -> parseBlock(p)
           [] fn = "parseBlockExpr" -> parseBlockExpr(p)
           [] fn = "parseStatement" -> parseStatement(p)
           [] fn = "parsePattern" -> parsePattern(p)
           [] fn = "parseExpression" -> parseAssignment(p)
           [] fn = "parseAssignment" -> parseAssignment(p)
           [] fn \in BinaryNames -> parseBinary(fn, p)
           [] fn = "parseUnary" -> parseUnary(p)
           [] fn = "parsePrimary" -> parsePrimary(p)
           [] fn = "parseGenericParams" -> parseGenericParams(p)
           [] fn = "parseFuncDecl" -> parseFuncDecl(p)
           [] fn = "parseDeclaration" -> parseDeclaration(p)
           [] fn = "parseModule" -> parseModule(p)

\* ------------------------------------------------------------------------
\* Name resolution (NameResolution.cpp).  The resolver state r holds the
\* diagnostics emitted so far and the scopes from globalScope_ (first) to
\* currentScope_ (last); a scope that was left is a child of its parent.
\* Declarations carry their location; statements and expressions carry
\* none, the diagnostics of the passes about them are placed at 0:0.
\* ------------------------------------------------------------------------

\* Symbol sym; sym.name = name; sym.kind = kind; no pass assigns typeName.
\* The name is the key the symbol is inserted under, the only name read.
Symbol(name, kind) == [name |-> name, kind |-> kind, typeName |-> ""]

\* Scope::Scope(name, parent)
Scope(name) == [name |-> name, symbols |-> {}, children |-> <<>>]

\* symbols.find(symbolName): the symbol of that name, or Null
find(scope, symbolName) ==
    IF \E s \in scope.symbols : s.name = symbolName
    THEN CHOOSE s \in scope.symbols : s.name = symbolName
    ELSE Null

RECURSIVE lookup(_, _, _)
\* Scope::lookup on the n-th scope of the chain
lookup(chain, n, symbolName) ==
    IF find(chain[n], symbolName) # Null THEN find(chain[n], symbolName)
    ELSE IF n > 1 THEN lookup(chain, n - 1, symbolName)
    ELSE Null

RECURSIVE foundAt(_, _, _)
\* the place in the chain of the scope whose symbol Scope::lookup on the
\* n-th scope of the chain returns, 0 when it returns nullptr
foundAt(chain, n, symbolName) ==
    IF find(chain[n], symbolName) # Null THEN n
    ELSE IF n > 1 THEN foundAt(chain, n - 1, symbolName)
    ELSE 0

\* NameResolver::NameResolver over the diagnostics emitted so far; looked
\* records the calls of enterScope, exitScope and Scope::insert and the
\* lookups of resolveExpr, in the order the resolver makes them, and the
\* let and const statements resolveStmt enters
NewResolver(engine, globalScope) ==
    [diags |-> engine, chain |-> <<globalScope>>, val |-> TRUE,
     looked |-> <<>>]

\* diag_.emitError of the passes over the syntax tree
passError(r, message) == [r EXCEPT !.diags = Append(@, Diag(message, 0, 0))]

\* currentScope_->insert(sym.name, sym), val being what it returned
insert(r, sym) ==
    LET ok == find(r.chain[Len(r.chain)], sym.name) = Null
        seen == [r EXCEPT !.looked = Append(@, [op |-> "insert",
                                                name |-> sym.name,
                                                ok |-> ok])]
    IN  IF ~ok THEN [seen EXCEPT !.val = FALSE]
        ELSE [seen EXCEPT !.chain[Len(r.chain)].symbols = @ \cup {sym},
                          !.val = TRUE]

\* NameResolver::enterScope
enterScope(r, name) ==
    [r EXCEPT !.chain = Append(@, Scope(name)),
              !.looked = Append(@, [op |-> "enter", name |-> name])]

\* NameResolver::exitScope
exitScope(r) ==
    LET n == Len(r.chain)
    IN  [r EXCEPT !.chain =
            [SubSeq(@, 1, n - 1) EXCEPT ![n - 1].children =
                Append(@, r.chain[n])],
                  !.looked = Append(@, [op |-> "exit"])]

\* registerDecl reporting the redefinition of functions only
registerDeclFunctionsOnly(r, decl) ==
    LET kinds == ("FuncDecl" :> "Function") @@ ("StructDecl" :> "Struct") @@
                 ("ClassDecl" :> "Class") @@ ("EnumDecl" :> "Enum") @@
                 ("TraitDecl" :> "Trait") @@ ("TypeAliasDecl" :> "TypeAlias")
        ins == insert(r, Symbol(decl.name, kinds[decl.kind]))
    IN  IF decl.kind \notin DOMAIN kinds THEN r
        ELSE IF ~ins.val /\ decl.kind = "FuncDecl"
        THEN [ins EXCEPT !.diags =
                 Append(@, Diag("redefinition of '" \o decl.name \o "'",
                                decl.location.line, decl.location.column))]
        ELSE ins

\* NameResolver::registerDecl
registerDecl(r, decl) ==
    LET kinds == ("FuncDecl" :> "Function") @@ ("StructDecl" :> "Struct") @@
                 ("ClassDecl" :> "Class") @@ ("EnumDecl" :> "Enum") @@
                 ("TraitDecl" :> "Trait") @@ ("TypeAliasDecl" :> "TypeAlias")
        ins == insert(r, Symbol(decl.name, kinds[decl.kind]))
    IN  IF decl.kind \notin DOMAIN kinds THEN r
        ELSE IF ~ins.val
        THEN [ins EXCEPT !.diags =
                 Append(@, Diag("redefinition of '" \o decl.name \o "'",
                                decl.location.line, decl.location.column))]
        ELSE ins

RECURSIVE Resolve(_, _, _)

\* the variable of a let or const statement entering the scope before its
\* initialiser is resolved
resolveBindingInsertFirst(r, stmt, init, what) ==
    LET entered == [r EXCEPT !.looked =
                       Append(@, [op |-> "bind", name |-> stmt.name,
                                  init |-> init])]
        ins == insert(entered, Symbol(stmt.name, "Variable"))
        declared == IF ~ins.val
                    THEN passError(ins, "redefinition of " \o what \o " '"
                                        \o stmt.name \o "'")
                    ELSE ins
    IN  IF init # Null THEN Resolve("resolveExpr", declared, init)
        ELSE declared

\* NameResolver::resolveStmt, case Let and case Const: the initialiser is
\* resolved, then the variable is inserted in the current scope; what is
\* "variable" or "constant"; looked records the statement on entry
resolveBinding(r, stmt, init, what) ==
    LET entered == [r EXCEPT !.looked =
                       Append(@, [op |-> "bind", name |-> stmt.name,
                                  init |-> init])]
        resolved == IF init # Null
                    THEN Resolve("resolveExpr", entered, init)
                    ELSE entered
        ins == insert(resolved, Symbol(stmt.name, "Variable"))
    IN  IF ~ins.val
        THEN passError(ins, "redefinition of " \o what \o " '"
                            \o stmt.name \o "'")
        ELSE ins

\* NameResolver::resolveStmt
resolveStmt(r, stmt) ==
    CASE stmt.kind = "LetStmt" ->
            resolveBinding(r, stmt, stmt.init, "variable")
      [] stmt.kind = "ConstStmt" ->
            resolveBinding(r, stmt, stmt.value, "constant")
      [] stmt.kind = "IfStmt" ->
            LET then == Resolve("resolveStmt",
                                Resolve("resolveExpr", r, stmt.condition),
                                stmt.thenBranch)
            IN  IF stmt.elseBranch # Null
                THEN Resolve("resolveStmt", then, stmt.elseBranch)
                ELSE then
      [] stmt.kind = "WhileStmt" ->
            Resolve("resolveStmt", Resolve("resolveExpr", r, stmt.condition),
                    stmt.body)
      [] stmt.kind = "LoopStmt" -> Resolve("resolveStmt", r, stmt.body)
      [] stmt.kind = "ReturnStmt" ->
            IF stmt.value # Null THEN Resolve("resolveExpr", r, stmt.value)
            ELSE r
      [] stmt.kind = "BlockStmt" ->
            exitScope(Resolve("statements", enterScope(r, "block"),
                              stmt.statements))
      [] stmt.kind = "ExprStmt" -> Resolve("resolveExpr", r, stmt.expr)
      [] stmt.kind = "MatchStmt" ->
            Resolve("resolveExpr", r, stmt.scrutinee)
      [] OTHER -> r

\* NameResolver::resolveExpr
resolveExpr(r, expr) ==
    CASE expr.kind = "IdentExpr" ->
            LET seen == [r EXCEPT !.looked =
                            Append(@, [op |-> "lookup", name |-> expr.name,
                                       found |-> foundAt(r.chain,
                                                         Len(r.chain),
                                                         expr.name)])]
            IN  IF lookup(r.chain, Len(r.chain), expr.name) = Null
                THEN passError(seen, "use of undeclared identifier '"
                                     \o expr.name \o "'")
                ELSE seen
      [] expr.kind = "CallExpr" ->
            Resolve("expressions", Resolve("resolveExpr", r, expr.callee),
                    expr.arguments)
      [] expr.kind = "BinaryExpr" ->
            Resolve("resolveExpr", Resolve("resolveExpr", r, expr.lhs),
                    expr.rhs)
      [] expr.kind = "BlockExpr" ->
            LET body == Resolve("statements", enterScope(r, "block_expr"),
                                expr.statements)
            IN  exitScope(IF expr.finalExpr # Null
                          THEN Resolve("resolveExpr", body, expr.finalExpr)
                          ELSE body)
      [] expr.kind \in {"AssignExpr", "CompoundAssignExpr"} ->
            Resolve("resolveExpr", Resolve("resolveExpr", r, expr.target),
                    expr.value)
      [] expr.kind = "MatchExpr" ->
            Resolve("arms", Resolve("resolveExpr", r, expr.scrutinee),
                    expr.arms)
      [] OTHER -> r

\* NameResolver::resolveFunc
resolveFunc(r, decl) ==
    LET generics == Resolve("generics", enterScope(r, decl.name),
                            decl.genericParams)
        params == Resolve("params", generics, decl.params)
    IN  exitScope(IF decl.body # Null
                  THEN Resolve("statements", params, decl.body.statements)
                  ELSE params)

\* the resolver function named fn applied to the state r and a node, or
\* the loop named fn over a sequence of nodes
Resolve(fn, r, node) ==
    CASE fn = "resolveExpr" -> resolveExpr(r, node)
      [] fn = "resolveStmt" -> resolveStmt(r, node)
      [] fn = "resolveDecl" ->
            CASE node.kind = "FuncDecl" -> resolveFunc(r, node)
              [] node.kind \in {"StructDecl", "ClassDecl"} ->
                    exitScope(Resolve("generics", enterScope(r, node.name),
                                      node.genericParams))
              [] node.kind = "EnumDecl" ->
                    Resolve("variants", r, node.variants)
              [] node.kind = "TraitDecl" ->
                    exitScope(Resolve("register", enterScope(r, node.name),
                                      node.methods))
              [] OTHER -> r
      [] OTHER ->
            IF node = <<>> THEN r
            ELSE CASE fn = "statements" ->
                        Resolve(fn, Resolve("resolveStmt", r, Head(node)),
                                Tail(node))
                   [] fn = "expressions" ->
                        Resolve(fn, Resolve("resolveExpr", r, Head(node)),
                                Tail(node))
                   [] fn = "params" ->
                        Resolve(fn, insert(r, Symbol(Head(node).name,
                                                     "Variable")),
                                Tail(node))
                   [] fn = "generics" ->
                        Resolve(fn, insert(r, Symbol(Head(node).name,
                                                     "GenericParam")),
                                Tail(node))
                   [] fn = "variants" ->
                        Resolve(fn, insert(r, Symbol(Head(node).name,
                                                     "EnumVariant")),
                                Tail(node))
                   [] fn = "arms" ->
                        Resolve(fn,
                                exitScope(Resolve("resolveExpr",
                                                  enterScope(r, "match_arm"),
                                                  Head(node).body)),
                                Tail(node))
                   [] fn = "register" ->
                        Resolve(fn, registerDecl(r, Head(node)), Tail(node))
                   [] fn = "declarations" ->
                        Resolve(fn, Resolve("resolveDecl", r, Head(node)),
                                Tail(node))

\* NameResolver::resolve
resolve(r, module) ==
    Resolve("declarations", Resolve("register", r, module.declarations),
            module.declarations)

\* ------------------------------------------------------------------------
\* Type checking (TypeChecker of Sema.cpp).  The checker state c holds the
\* diagnostics emitted so far, scope_, knownTypes_, currentReturnType_ and,
\* in val, the type name the last checkExpr returned.
\* ------------------------------------------------------------------------

\* TypeChecker::registerBuiltinTypes
BuiltinTypes ==
    {"Int8", "Int16", "Int32", "Int64", "UInt8", "UInt16", "UInt32",
     "UInt64", "Float32", "Float64", "Bool", "Char", "String", "Void",
     "Option", "Result", "Vec", "Map", "Set", "Box", "Rc", "Arc", "Mutex",
     "Channel", "Future"}

\* TypeChecker::TypeChecker and the registration of the user-defined types
\* at the start of TypeChecker::check
NewChecker(engine, scope) ==
    [diags |-> engine, scope |-> scope,
     knownTypes |-> BuiltinTypes \cup
        {s.name : s \in {t \in scope.symbols :
            t.kind \in {"Struct", "Class", "Enum", "Trait", "TypeAlias"}}},
     currentReturnType |-> "", val |-> ""]

\* TypeChecker::isValidType
isValidType(c, typeName) == typeName \in c.knownTypes

\* TypeChecker::typesCompatible
typesCompatible(expected, actual) ==
    \/ expected = actual
    \/ /\ actual = "Int64"
       /\ expected \in {"Int8", "Int16", "Int32", "UInt8", "UInt16",
                        "UInt32", "UInt64"}
    \/ actual = "Float64" /\ expected = "Float32"

RECURSIVE joinPath(_, _)
\* the loop of TypeChecker::typeToString over nt.path from index i
joinPath(path, i) ==
    IF i > Len(path) THEN ""
    ELSE (IF i > 1 THEN "::" ELSE "") \o path[i] \o joinPath(path, i + 1)

\* TypeChecker::typeToString of a named or generic type
typeToString(type) ==
    IF type.kind = "GenericType" THEN joinPath(type.base.path, 1)
    ELSE joinPath(type.path, 1)

\* diag_.emitError(decl.location, message)
declError(c, decl, message) ==
    [c EXCEPT !.diags = Append(@, Diag(message, decl.location.line,
                                       decl.location.column))]

RECURSIVE checkTypeRefs(_, _, _)
\* the loops of checkFuncDecl, checkStructDecl, checkClassDecl and
\* checkEnumDecl over the type references of decl: each reference whose
\* typeToString is no valid type is reported, the message being the type's
\* name between the texts `before` and `after` of the reference
checkTypeRefs(c, decl, refs) ==
    IF refs = <<>> THEN c
    ELSE LET ref == Head(refs)
             name == typeToString(ref.type)
         IN  checkTypeRefs(IF ~isValidType(c, name)
                           THEN declError(c, decl,
                                          ref.before \o name \o ref.after)
                           ELSE c,
                           decl, Tail(refs))

\* TypeChecker::checkStructDecl
checkStructDecl(c, decl) ==
    checkTypeRefs(c, decl, [i \in DOMAIN decl.fields |->
        [type |-> decl.fields[i].type, before |-> "unknown field type '",
         after |-> "' for field '" \o decl.fields[i].name
                   \o "' in struct '" \o decl.name \o "'"]])

\* TypeChecker::checkClassDecl of a class without methods
checkClassDecl(c, decl) ==
    checkTypeRefs(c, decl, [i \in DOMAIN decl.fields |->
        [type |-> decl.fields[i].type, before |-> "unknown field type '",
         after |-> "' for field '" \o decl.fields[i].name
                   \o "' in class '" \o decl.name \o "'"]])

RECURSIVE checkEnumVariants(_, _, _)
\* TypeChecker::checkEnumDecl: the loop over the variants, none of which has
\* struct fields
checkEnumVariants(c, decl, variants) ==
    IF variants = <<>> THEN c
    ELSE checkEnumVariants(
             checkTypeRefs(c, decl,
                 [i \in DOMAIN Head(variants).tupleFields |->
                     [type |-> Head(variants).tupleFields[i],
                      before |-> "unknown type '",
                      after |-> "' in enum variant '"
                                \o Head(variants).name \o "'"]]),
             decl, Tail(variants))

\* TypeChecker::checkIdentExpr
checkIdentExpr(c, expr) ==
    LET sym == lookup(<<c.scope>>, 1, expr.name)
    IN  IF sym # Null /\ sym.typeName # "" THEN Val(c, sym.typeName)
        ELSE Val(c, "")

RECURSIVE checkExpr(_, _)
\* TypeChecker::checkBinaryExpr
checkBinaryExpr(c, expr) ==
    LET lhs == checkExpr(c, expr.lhs)
        rhs == checkExpr(lhs, expr.rhs)
    IN  IF expr.op \in {"Equal", "NotEqual", "Less", "LessEqual", "Greater",
                        "GreaterEqual", "And", "Or"}
        THEN Val(rhs, "Bool")
        ELSE Val(IF lhs.val # "" /\ rhs.val # ""
                    /\ ~typesCompatible(lhs.val, rhs.val)
                 THEN passError(rhs, "binary expression type mismatch: '"
                                     \o lhs.val \o "' vs '" \o rhs.val
                                     \o "'")
                 ELSE rhs,
                 IF lhs.val = "" THEN rhs.val ELSE lhs.val)

RECURSIVE checkArguments(_, _)
\* for (auto& arg : expr.arguments) checkExpr(*arg)
checkArguments(c, arguments) ==
    IF arguments = <<>> THEN c
    ELSE checkArguments(checkExpr(c, Head(arguments)), Tail(arguments))

\* TypeChecker::checkCallExpr
checkCallExpr(c, expr) ==
    Val(checkArguments(checkExpr(c, expr.callee), expr.arguments), "")

\* TypeChecker::checkExpr
checkExpr(c, expr) ==
    CASE expr.kind = "IntLiteralExpr" -> Val(c, "Int64")
      [] expr.kind = "BoolLiteralExpr" -> Val(c, "Bool")
      [] expr.kind = "IdentExpr" -> checkIdentExpr(c, expr)
      [] expr.kind = "BinaryExpr" -> checkBinaryExpr(c, expr)
      [] expr.kind = "CallExpr" -> checkCallExpr(c, expr)
      [] OTHER -> Val(c, "")

\* TypeChecker::checkLetStmt
checkLetStmt(c, stmt) ==
    IF stmt.type # Null
    THEN LET declType == typeToString(stmt.type)
             valid == IF ~isValidType(c, declType)
                      THEN passError(c, "unknown type '" \o declType
                                        \o "' in let binding")
                      ELSE c
             init == checkExpr(valid, stmt.init)
         IN  IF stmt.init = Null THEN valid
             ELSE IF init.val # "" /\ ~typesCompatible(declType, init.val)
             THEN passError(init, "type mismatch: expected '" \o declType
                                  \o "', got '" \o init.val \o "'")
             ELSE init
    ELSE passError(c, "variable '" \o stmt.name
                      \o "' must have an explicit type annotation")

\* TypeChecker::checkReturnStmt
checkReturnStmt(c, stmt) ==
    IF stmt.value # Null
    THEN LET ret == checkExpr(c, stmt.value)
         IN  IF c.currentReturnType # "" /\ ret.val # ""
                /\ ~typesCompatible(c.currentReturnType, ret.val)
             THEN passError(ret, "return type mismatch: expected '"
                                 \o c.currentReturnType \o "', got '"
                                 \o ret.val \o "'")
             ELSE ret
    ELSE IF c.currentReturnType # "" /\ c.currentReturnType # "Void"
    THEN passError(c, "non-void function must return a value")
    ELSE c

RECURSIVE checkStmt(_, _)

\* TypeChecker::checkIfStmt
checkIfStmt(c, stmt) ==
    LET cond == checkExpr(c, stmt.condition)
        then == checkStmt(IF cond.val # "" /\ cond.val # "Bool"
                          THEN passError(cond,
                                   "condition must be of type 'Bool', got '"
                                   \o cond.val \o "'")
                          ELSE cond,
                          stmt.thenBranch)
    IN  IF stmt.elseBranch # Null THEN checkStmt(then, stmt.elseBranch)
        ELSE then

\* TypeChecker::checkWhileStmt
checkWhileStmt(c, stmt) ==
    LET cond == checkExpr(c, stmt.condition)
    IN  checkStmt(IF cond.val # "" /\ cond.val # "Bool"
                  THEN passError(cond,
                           "condition must be of type 'Bool', got '"
                           \o cond.val \o "'")
                  ELSE cond,
                  stmt.body)

RECURSIVE checkStmts(_, _)
\* for (auto& s : statements) checkStmt(*s)
checkStmts(c, stmts) ==
    IF stmts = <<>> THEN c
    ELSE checkStmts(checkStmt(c, Head(stmts)), Tail(stmts))

\* TypeChecker::checkStmt
checkStmt(c, stmt) ==
    CASE stmt.kind = "LetStmt" -> checkLetStmt(c, stmt)
      [] stmt.kind = "ReturnStmt" -> checkReturnStmt(c, stmt)
      [] stmt.kind = "IfStmt" -> checkIfStmt(c, stmt)
      [] stmt.kind = "WhileStmt" -> checkWhileStmt(c, stmt)
      [] stmt.kind = "BlockStmt" -> checkStmts(c, stmt.statements)
      [] stmt.kind = "ExprStmt" -> checkExpr(c, stmt.expr)
      [] OTHER -> c

\* TypeChecker::checkFuncDecl
checkFuncDecl(c, decl) ==
    LET retType == typeToString(decl.returnType)
        ret == IF decl.returnType = Null
               THEN [c EXCEPT !.currentReturnType = "Void"]
               ELSE [(IF ~isValidType(c, retType)
                      THEN declError(c, decl,
                                     "unknown return type '" \o retType
                                     \o "' in function '" \o decl.name
                                     \o "'")
                      ELSE c) EXCEPT !.currentReturnType = retType]
        params == checkTypeRefs(ret, decl, [i \in DOMAIN decl.params |->
                      [type |-> decl.params[i].type,
                       before |-> "unknown parameter type '",
                       after |-> "' for parameter '" \o decl.params[i].name
                                 \o "'"]])
        body == IF decl.body # Null
                THEN checkStmts(params, decl.body.statements)
                ELSE params
    IN  [body EXCEPT !.currentReturnType = ""]

RECURSIVE checkDecls(_, _)
\* TypeChecker::check and TypeChecker::checkDecl
checkDecls(c, decls) ==
    IF decls = <<>> THEN c
    ELSE checkDecls(CASE Head(decls).kind = "FuncDecl" ->
                             checkFuncDecl(c, Head(decls))
                      [] Head(decls).kind = "StructDecl" ->
                             checkStructDecl(c, Head(decls))
                      [] Head(decls).kind = "ClassDecl" ->
                             checkClassDecl(c, Head(decls))
                      [] Head(decls).kind = "EnumDecl" ->
                             checkEnumVariants(c, Head(decls),
                                               Head(decls).variants)
                      [] Head(decls).kind = "TraitDecl" ->
                             checkDecls(c, Head(decls).methods)
                      [] OTHER -> c,
                    Tail(decls))

\* DiagnosticEngine::getErrorCount
getErrorCount(engine) ==
    Cardinality({i \in DOMAIN engine :
                    engine[i].severity \in {"Error", "Fatal"}})

\* Sema::analyze going on to the type checker whatever name resolution
\* reported
resolutionFailedNever(engine, errorsBefore) == FALSE

\* Sema::analyze: if (diag_.getErrorCount() > errorsBefore) return false;
\* engine being the diagnostics after name resolution
resolutionFailed(engine, errorsBefore) == getErrorCount(engine) > errorsBefore

\* Sema::analyze: the diagnostics and global scope after it, in val what it
\* returned, in resolved whether name resolution emitted no error
analyze(engine, module) ==
    LET errorsBefore == getErrorCount(engine)
        Returned(resolver, checker) ==
            IF resolutionFailed(resolver.diags, errorsBefore)
            THEN [diags |-> resolver.diags, scope |-> resolver.chain[1],
                  resolved |-> FALSE, val |-> FALSE]
            ELSE [diags |-> checker.diags, scope |-> resolver.chain[1],
                  resolved |-> TRUE,
                  val |-> getErrorCount(checker.diags) = errorsBefore]
        Checked(resolver) ==
            Returned(resolver,
                     checkDecls(NewChecker(resolver.diags, resolver.chain[1]),
                                module.declarations))
    IN  Checked(resolve(NewResolver(engine, Scope("global")), module))

\* ------------------------------------------------------------------------
\* Lowering (IREmitter.cpp, CodeGen.cpp).  The emitter state e holds the
\* diagnostics emitted so far, the functions of module_, namedValues_ and
\* the instructions of the entry block of the function under construction,
\* the only block the statements lowered here make.
\* An llvm::Value is its type; val holds the value an emit function
\* returned, Null for nullptr.
\* ------------------------------------------------------------------------

\* TypeMapper::initBuiltinTypes
builtinTypes ==
    [Int8 |-> "i8", Int16 |-> "i16", Int32 |-> "i32", Int64 |-> "i64",
     UInt8 |-> "i8", UInt16 |-> "i16", UInt32 |-> "i32", UInt64 |-> "i64",
     Float32 |-> "float", Float64 |-> "double", Bool |-> "i1",
     Char |-> "i32", String |-> "ptr", Void |-> "void"]

\* TypeMapper::mapType of a named type
mapType(type) ==
    IF Len(type.path) = 1 /\ type.path[1] \in DOMAIN builtinTypes
    THEN builtinTypes[type.path[1]]
    ELSE "ptr"

\* llvm::Type::isIntegerTy
isIntegerTy(type) == type \in {"i1", "i8", "i16", "i32", "i64"}

\* llvm::Type::getIntegerBitWidth
getIntegerBitWidth(type) ==
    CASE type = "i1" -> 1
      [] type = "i8" -> 8
      [] type = "i16" -> 16
      [] type = "i32" -> 32
      [] type = "i64" -> 64

\* an llvm::Value of the given type
Value(type) == [kind |-> "Value", type |-> type]

\* IREmitter::IREmitter
NewEmitter(engine) ==
    [diags |-> engine, functions |-> <<>>, namedValues |-> <<>>,
     insts |-> <<>>, val |-> Null]

\* an IRBuilder Create call at the insert point, the end of the entry block
Create(e, inst) == [e EXCEPT !.insts = Append(@, inst)]

\* IREmitter::createEntryBlockAlloca: the alloca goes to the start of the
\* entry block
createEntryBlockAlloca(e, name, type) ==
    LET slot == Len(SelectSeq(e.insts, LAMBDA i : i.op = "alloca")) + 1
    IN  [e EXCEPT !.insts = <<[op |-> "alloca", type |-> type,
                               slot |-> slot]>> \o @,
                  !.val = [kind |-> "Value", type |-> "ptr", slot |-> slot]]

\* builder_.GetInsertBlock()->getTerminator()
getTerminator(e) ==
    IF e.insts # <<>> /\ e.insts[Len(e.insts)].op = "ret"
    THEN e.insts[Len(e.insts)]
    ELSE Null

\* namedValues_.find(name): the type allocated for the name, or Null
namedValue(e, name) ==
    IF \E i \in DOMAIN e.namedValues : e.namedValues[i].name = name
    THEN Value(e.namedValues[CHOOSE i \in DOMAIN e.namedValues :
                                e.namedValues[i].name = name].type)
    ELSE Null

\* namedValues_.find(name)->second: the alloca the name stands for
namedSlot(e, name) ==
    e.namedValues[CHOOSE i \in DOMAIN e.namedValues :
                     e.namedValues[i].name = name].slot

\* namedValues_[name] = alloca
setNamedValue(e, name, alloca) ==
    [e EXCEPT !.namedValues =
        SelectSeq(@, LAMBDA v : v.name # name)
        \o <<[name |-> name, type |-> alloca.type, slot |-> alloca.slot]>>]

\* IREmitter::emitIdent
emitIdent(e, expr) ==
    IF namedValue(e, expr.name) = Null
    THEN IF \E i \in DOMAIN e.functions : e.functions[i].name = expr.name
         THEN Val(e, Value("ptr"))
         ELSE Val(passError(e, "unknown variable '" \o expr.name \o "'"),
                  Null)
    ELSE Val(Create(e, [op |-> "load",
                        type |-> namedValue(e, expr.name).type,
                        slot |-> namedSlot(e, expr.name)]),
             Value(namedValue(e, expr.name).type))

RECURSIVE Emit(_, _, _)

\* IREmitter::emitBlockExpr
emitBlockExpr(e, expr) ==
    LET body == Emit("statements", e, expr.statements)
    IN  IF expr.finalExpr # Null THEN Emit("emitExpr", body, expr.finalExpr)
        ELSE Val(body, Null)

\* IREmitter::emitAssignExpr
emitAssignExpr(e, expr) ==
    LET value == Emit("emitExpr", e, expr.value)
    IN  IF value.val = Null THEN value
        ELSE IF expr.target.kind = "IdentExpr"
                /\ namedValue(value, expr.target.name) # Null
        THEN Val(Create(value, [op |-> "store", type |-> value.val.type,
                                slot |-> namedSlot(value,
                                                   expr.target.name)]),
                 value.val)
        ELSE Val(value, Null)

\* IREmitter::emitBinaryExpr on operands that are no floating-point values
emitBinaryExpr(e, expr) ==
    LET lhs == Emit("emitExpr", e, expr.lhs)
        rhs == Emit("emitExpr", lhs, expr.rhs)
        l == lhs.val.type
        r == rhs.val.type
        differ == isIntegerTy(l) /\ isIntegerTy(r) /\ l # r
        wide == IF differ /\ getIntegerBitWidth(l) <= getIntegerBitWidth(r)
                THEN r ELSE l
        coerced == IF differ THEN Create(rhs, [op |-> "sext", type |-> wide])
                   ELSE rhs
    IN  IF lhs.val = Null \/ rhs.val = Null THEN Val(rhs, Null)
        ELSE IF expr.op \in {"Add", "Sub", "Mul", "Div", "Mod", "And", "Or",
                             "BitAnd", "BitOr", "BitXor", "ShiftLeft",
                             "ShiftRight"}
        THEN Val(Create(coerced, [op |-> expr.op, type |-> wide]),
                 Value(wide))
        ELSE IF expr.op \in {"Equal", "NotEqual", "Less", "LessEqual",
                             "Greater", "GreaterEqual"}
        THEN Val(Create(coerced, [op |-> expr.op, type |-> "i1"]),
                 Value("i1"))
        ELSE Val(coerced, Null)

\* the body of the loop of emitCallExpr over the arguments: val holds the
\* values emitted so far, Null once an argument gave nullptr and
\* emitCallExpr returned
emitArgument(e, arg) ==
    LET value == Emit("emitExpr", e, arg)
    IN  IF e.val = Null \/ value.val = Null THEN Val(value, Null)
        ELSE Val(value, [kind |-> "Arguments",
                         values |-> Append(e.val.values, value.val)])

\* IREmitter::emitCallExpr: module_.getFunction finds the functions
\* created so far
emitCallExpr(e, expr) ==
    LET calleeName == IF expr.callee.kind = "IdentExpr"
                      THEN expr.callee.name
                      ELSE IF expr.callee.kind = "PathExpr"
                      THEN joinPath(expr.callee.segments, 1)
                      ELSE ""
        found == {i \in DOMAIN e.functions :
                     e.functions[i].name = calleeName}
        calleeFunc == e.functions[CHOOSE i \in found : TRUE]
        args == Emit("arguments",
                     Val(e, [kind |-> "Arguments", values |-> <<>>]),
                     expr.arguments)
        call == Create(args, [op |-> "call", type |-> calleeFunc.retType,
                              callee |-> calleeName])
    IN  IF found = {}
        THEN Val(passError(e, "unknown function '" \o calleeName \o "'"),
                 Null)
        ELSE IF args.val = Null THEN args
        ELSE IF calleeFunc.retType = "void" THEN Val(call, Null)
        ELSE Val(call, Value(calleeFunc.retType))

\* IREmitter::emitExpr
emitExpr(e, expr) ==
    CASE expr.kind = "IntLiteralExpr" -> Val(e, Value("i64"))
      [] expr.kind = "BoolLiteralExpr" -> Val(e, Value("i1"))
      [] expr.kind = "IdentExpr" -> emitIdent(e, expr)
      [] expr.kind = "CallExpr" -> emitCallExpr(e, expr)
      [] expr.kind = "BlockExpr" -> emitBlockExpr(e, expr)
      [] expr.kind = "AssignExpr" -> emitAssignExpr(e, expr)
      [] expr.kind = "BinaryExpr" -> emitBinaryExpr(e, expr)
      [] OTHER -> Val(e, Null)

\* IREmitter::emitLetStmt
emitLetStmt(e, stmt) ==
    LET varType == IF stmt.type # Null THEN mapType(stmt.type) ELSE "i64"
        alloca == createEntryBlockAlloca(e, stmt.name, varType)
        init == Emit("emitExpr", alloca, stmt.init)
        cast == IF isIntegerTy(varType) /\ isIntegerTy(init.val.type)
                   /\ varType # init.val.type
                THEN IF getIntegerBitWidth(varType)
                        < getIntegerBitWidth(init.val.type)
                     THEN Create(init, [op |-> "trunc", type |-> varType])
                     ELSE Create(init, [op |-> "sext", type |-> varType])
                ELSE init
        stored == IF stmt.init = Null THEN alloca
                  ELSE IF init.val = Null THEN init
                  ELSE Create(cast, [op |-> "store", type |-> varType,
                                     slot |-> alloca.val.slot])
    IN  setNamedValue(stored, stmt.name,
                      [type |-> varType, slot |-> alloca.val.slot])

\* IREmitter::emitReturnStmt
emitReturnStmt(e, stmt) ==
    LET value == Emit("emitExpr", e, stmt.value)
    IN  IF stmt.value = Null THEN Create(e, [op |-> "ret", type |-> "void"])
        ELSE IF value.val # Null
        THEN Create(value, [op |-> "ret", type |-> value.val.type])
        ELSE Create(value, [op |-> "ret", type |-> "void"])

\* IREmitter::emitStmt
emitStmt(e, stmt) ==
    CASE stmt.kind = "LetStmt" -> emitLetStmt(e, stmt)
      [] stmt.kind = "ReturnStmt" -> emitReturnStmt(e, stmt)
      [] stmt.kind = "BlockStmt" -> Emit("statements", e, stmt.statements)
      [] stmt.kind = "ExprStmt" -> Emit("emitExpr", e, stmt.expr)
      \* if (!loopStack_.empty()) builder_.CreateBr(...): loopStack_ is
      \* empty, no loop statement is lowered here
      [] stmt.kind \in {"BreakStmt", "ContinueStmt"} -> e
      [] OTHER -> e

\* llvm::verifyFunction on a declaration or on a function whose only block
\* is the entry block: TRUE (broken) when the block does not end in its
\* only terminator, a ret of the function's return type
verifyFunction(func) ==
    /\ func.insts # <<>>
    /\ \/ func.insts[Len(func.insts)].op # "ret"
       \/ \E i \in 1..(Len(func.insts) - 1) : func.insts[i].op = "ret"
       \/ func.insts[Len(func.insts)].type # func.retType

\* the body of the loop of emitFuncDecl over func->args(): an alloca, a
\* store and an entry of namedValues_ for the parameter
paramAlloca(e, param) ==
    LET type == mapType(param.type)
        alloca == createEntryBlockAlloca(e, param.name, type)
    IN  setNamedValue(Create(alloca, [op |-> "store", type |-> type,
                                      slot |-> alloca.val.slot]),
                      param.name, [type |-> type, slot |-> alloca.val.slot])

\* IREmitter::emitFuncDecl of a function whose parameters have a type
emitFuncDecl(e, decl) ==
    LET retType == IF decl.returnType # Null THEN mapType(decl.returnType)
                   ELSE "void"
        linkage == IF decl.visibility = "Public" \/ decl.name = "main"
                   THEN "ExternalLinkage" ELSE "InternalLinkage"
        func == [e EXCEPT !.functions = Append(@, [name |-> decl.name,
                                                   retType |-> retType,
                                                   linkage |-> linkage,
                                                   insts |-> <<>>])]
        entry == Emit("params", [func EXCEPT !.insts = <<>>,
                                            !.namedValues = <<>>],
                      decl.params)
        body == Emit("statements", entry, decl.body.statements)
        term == IF getTerminator(body) = Null
                THEN Create(body, [op |-> "ret", type |-> retType])
                ELSE body
        n == Len(func.functions)
        made == [name |-> decl.name, retType |-> retType,
                 linkage |-> linkage, insts |-> term.insts]
    IN  IF decl.body = Null THEN func
        ELSE [(IF verifyFunction(made)
               THEN [passError(term, "generated invalid IR for function '"
                                     \o decl.name \o "'")
                        EXCEPT !.functions = SubSeq(@, 1, n - 1)]
               ELSE [term EXCEPT !.functions[n] = made])
                 EXCEPT !.namedValues = e.namedValues]

\* the emitter function named fn applied to the state e and a node, or
\* the loop named fn over a sequence of nodes
Emit(fn, e, node) ==
    CASE fn = "emitExpr" -> emitExpr(e, node)
      [] fn = "emitStmt" -> emitStmt(e, node)
      [] fn = "emitDecl" ->
            IF node.kind = "FuncDecl" THEN emitFuncDecl(e, node) ELSE e
      [] OTHER ->
            IF node = <<>> THEN e
            ELSE CASE fn = "statements" ->
                        Emit(fn, Emit("emitStmt", e, Head(node)), Tail(node))
                   [] fn = "arguments" ->
                        Emit(fn, emitArgument(e, Head(node)), Tail(node))
                   [] fn = "params" ->
                        Emit(fn, paramAlloca(e, Head(node)), Tail(node))
                   [] fn = "declarations" ->
                        Emit(fn, Emit("emitDecl", e, Head(node)), Tail(node))

\* CodeGen::generate, targetOk telling whether initializeTarget finds the
\* target; the diagnostics after it, the functions of the llvm::Module and,
\* in val, what it returned
generate(engine, module, targetOk) ==
    LET emitter == Emit("declarations", NewEmitter(engine),
                        module.declarations)
    IN  IF ~targetOk
        THEN [diags |-> Append(engine,
                               Diag("failed to lookup target", 0, 0)),
              functions |-> <<>>, val |-> FALSE]
        ELSE IF \E i \in DOMAIN emitter.functions :
                    verifyFunction(emitter.functions[i])
        THEN [diags |-> Append(emitter.diags,
                               Diag("module verification failed", 0, 0)),
              functions |-> emitter.functions, val |-> FALSE]
        ELSE [diags |-> emitter.diags, functions |-> emitter.functions,
              val |-> TRUE]

\* CodeGen::writeOutput, fileOk telling whether the output file opens; the
\* diagnostics after it, in val what it returned
writeOutput(engine, fileOk) ==
    IF fileOk THEN [diags |-> engine, val |-> TRUE]
    ELSE [diags |-> Append(engine, Diag("could not open file", 0, 0)),
          val |-> FALSE]

\* ------------------------------------------------------------------------
\* Specification SpecLexAll: lexAll over every short source text
\* ------------------------------------------------------------------------

LexAllAlphabet ==
    {"0", "1", "x", "o", "a", "e", "_", ".", "\"", "'", "\\", "\n", " ",
     "/", "*", "!", "="}

SourcesOver(alphabet, n) == UNION {[1..k -> alphabet] : k \in 0..n}

NoSave == [valid |-> FALSE, st |-> saveState(NewLexer), returned |-> <<>>,
           opCalls |-> 0, restored |-> FALSE]

\* no Parser object exists
NoParser == [status |-> "none"]

\* no driver runs
NoDriver == [pc |-> "none"]

\* no call of Sema::analyze is followed
NoSema == [pc |-> "none"]

InitLexAll ==
    /\ source \in SourcesOver(LexAllAlphabet, MaxSrcLen)
    /\ lexer = NewLexer
    /\ diags = <<>>
    /\ lexPc = "ready"
    /\ tokens = <<>>
    /\ pieces = <<>>
    /\ history = <<>>
    /\ returned = <<>>
    /\ saved = NoSave
    /\ parser = NoParser
    /\ parserPc = "none"
    /\ driver = NoDriver
    /\ sema = NoSema

\* tokens.push_back(token); if (token.kind == TokenKind::Eof) break;
pushBack(r) ==
    /\ lexer' = r.s
    /\ diags' = diags \o r.diags
    /\ IF r.threw
       THEN /\ lexPc' = "threw"
            /\ UNCHANGED <<tokens, pieces>>
       ELSE /\ tokens' = Append(tokens, r.tok)
            /\ pieces' = Append(pieces,
                  [skipped |-> Substr(source, lexer.current,
                                      r.s.tokenStart - lexer.current),
                   tok |-> r.tok])
            /\ lexPc' = IF r.tok.kind = "Eof" THEN "done" ELSE "ready"

\* one iteration of the loop of lexAll
lexAll ==
    /\ lexPc = "ready"
    /\ pushBack(nextToken(source, lexer))
    /\ UNCHANGED <<source, history, returned, saved, parserVars, driver, sema>>

NextLexAll == lexAll

SpecLexAll == InitLexAll /\ [][NextLexAll]_vars

\* ------------------------------------------------------------------------
\* Specification SpecLexer: any sequence of calls on one Lexer object
\* ------------------------------------------------------------------------

ApiAlphabet == {"x", "0", " ", "!", "/", "*"}

InitLexer ==
    /\ source \in SourcesOver(ApiAlphabet, MaxSrcLen)
    /\ lexer = NewLexer
    /\ diags = <<>>
    /\ lexPc = "ready"
    /\ tokens = <<>>
    /\ pieces = <<>>
    /\ history = <<>>
    /\ returned = <<>>
    /\ saved = NoSave
    /\ parser = NoParser
    /\ parserPc = "none"
    /\ driver = NoDriver
    /\ sema = NoSema

CanCall == lexPc = "ready" /\ Len(history) < MaxCalls

Called(op, r) ==
    [op |-> op, tok |-> r.tok, emitted |-> Len(r.diags), threw |-> r.threw,
     buffered |-> lexer.hasPeeked]

\* the caller receives the result r of a nextToken or peekToken call
Receive(op, r) ==
    /\ lexer' = r.s
    /\ diags' = diags \o r.diags
    /\ history' = Append(history, Called(op, r))
    /\ lexPc' = IF r.threw THEN "threw" ELSE "ready"
    /\ returned' = IF r.threw \/ op # "next" THEN returned
                   ELSE Append(returned, r.tok)
    /\ saved' = [saved EXCEPT !.opCalls = @ + 1]
    /\ UNCHANGED <<source, tokens, pieces, parserVars, driver, sema>>

NextToken == CanCall /\ Receive("next", nextToken(source, lexer))

PeekToken == CanCall /\ Receive("peek", peekToken(source, lexer))

SaveState ==
    /\ CanCall
    /\ saved' = [valid |-> TRUE, st |-> saveState(lexer),
                 returned |-> returned, opCalls |-> 0, restored |-> FALSE]
    /\ history' = Append(history, Called("save", Produced(lexer, NoToken)))
    /\ UNCHANGED <<source, lexer, diags, lexPc, tokens, pieces, returned,
                   parserVars, driver, sema>>

RestoreState ==
    /\ CanCall
    /\ saved.valid
    /\ lexer' = restoreState(lexer, saved.st)
    /\ returned' = saved.returned
    /\ saved' = [saved EXCEPT !.restored = TRUE]
    /\ history' = Append(history, Called("restore", Produced(lexer, NoToken)))
    /\ UNCHANGED <<source, diags, lexPc, tokens, pieces, parserVars, driver, sema>>

NextLexer == NextToken \/ PeekToken \/ SaveState \/ RestoreState

SpecLexer == InitLexer /\ [][NextLexer]_vars
\* ------------------------------------------------------------------------
\* Specification SpecParser: parseModule and parsePrimary on a new Parser
\* ------------------------------------------------------------------------

\* the lexemes of function bodies
BodyAlphabet ==
    {<<"a">>, <<"1">>, <<";">>, <<":">>, <<":", ":">>, <<"{">>, <<"}">>,
     <<"=">>, <<"=", ">">>, <<"_">>, <<",">>, <<"l", "e", "t">>,
     <<"m", "a", "t", "c", "h">>, <<"r", "e", "t", "u", "r", "n">>}

\* the lexemes of paths and struct literals
ExprAlphabet == {<<"a">>, <<"1">>, <<":">>, <<":", ":">>, <<"{">>, <<"}">>}

RECURSIVE Spell(_)
\* the text of a sequence of lexemes, a space after each
Spell(lexemes) ==
    IF lexemes = <<>> THEN <<>>
    ELSE Head(lexemes) \o <<" ">> \o Spell(Tail(lexemes))

\* func f() -> Void {
FuncHeader ==
    <<"f", "u", "n", "c", " ", "f", "(", ")", " ", "-", ">", " ",
      "V", "o", "i", "d", " ", "{", " ">>

\* the lexemes of a name followed by a brace, and the character `!`, which
\* alone is a lexical error
LookaheadAlphabet == {<<"a">>, <<"{">>, <<"}">>, <<"!">>}

ParserSources ==
    {FuncHeader \o Spell(b) : b \in SourcesOver(BodyAlphabet, MaxBodyLen)}
    \cup {Spell(e) : e \in SourcesOver(ExprAlphabet, MaxExprLen)}
    \cup {FuncHeader \o Spell(e) :
              e \in SourcesOver(LookaheadAlphabet, MaxExprLen)}

InitParser ==
    /\ source \in ParserSources
    /\ parser = NewParser(source)
    /\ parserPc = "new"
    /\ driver = NoDriver
    /\ sema = NoSema
    /\ lexer = NewLexer
    /\ diags = <<>>
    /\ lexPc = "none"
    /\ tokens = <<>>
    /\ pieces = <<>>
    /\ history = <<>>
    /\ returned = <<>>
    /\ saved = NoSave

\* parser.parseModule()
ParseModule ==
    /\ parserPc = "new"
    /\ parser' = Parse("parseModule", parser)
    /\ parserPc' = "parseModule"
    /\ UNCHANGED <<lexVars, driver, sema>>

\* parsePrimary() with the first token of the source as current_
ParsePrimary ==
    /\ parserPc = "new"
    /\ parser' = Parse("parsePrimary", parser)
    /\ parserPc' = "parsePrimary"
    /\ UNCHANGED <<lexVars, driver, sema>>

NextParser == ParseModule \/ ParsePrimary

SpecParser == InitParser /\ [][NextParser]_vars

\* ------------------------------------------------------------------------
\* Specification SpecExpression: parseExpression() on an expression
\* `a op1 b op2 c` with two binary or assignment operators
\* ------------------------------------------------------------------------

\* the operators of parseAssignment and of parseOr .. parseMultiplicative
ExprOperators ==
    {<<"=">>, <<"+", "=">>, <<"-", "=">>, <<"*", "=">>, <<"/", "=">>,
     <<"%", "=">>, <<"&", "=">>, <<"|", "=">>, <<"^", "=">>,
     <<"o", "r">>, <<"a", "n", "d">>, <<"=", "=">>, <<"!", "=">>,
     <<"<">>, <<"<", "=">>, <<">">>, <<">", "=">>, <<"|">>, <<"^">>,
     <<"&">>, <<"<", "<">>, <<">", ">">>, <<"+">>, <<"-">>, <<"*">>,
     <<"/">>, <<"%">>}

\* a op1 b op2 c
ExpressionSources ==
    {Spell(<< <<"a">>, op1, <<"b">>, op2, <<"c">> >>) :
        op1 \in ExprOperators, op2 \in ExprOperators}

InitExpression ==
    /\ source \in ExpressionSources
    /\ parser = NewParser(source)
    /\ parserPc = "new"
    /\ driver = NoDriver
    /\ sema = NoSema
    /\ lexer = NewLexer
    /\ diags = <<>>
    /\ lexPc = "none"
    /\ tokens = <<>>
    /\ pieces = <<>>
    /\ history = <<>>
    /\ returned = <<>>
    /\ saved = NoSave

\* parseExpression() with the first token of the source as current_
ParseExpression ==
    /\ parserPc = "new"
    /\ parser' = Parse("parseExpression", parser)
    /\ parserPc' = "parseExpression"
    /\ UNCHANGED <<lexVars, driver, sema>>

NextExpression == ParseExpression

SpecExpression == InitExpression /\ [][NextExpression]_vars

\* ------------------------------------------------------------------------
\* Specification SpecDriver: one run of the compiler driver (main.cpp) on
\* a command line that names a file holding one function, or that names
\* no readable file
\* ------------------------------------------------------------------------

\* the command lines: an input file, --help, no input file, an unknown
\* option, a path that cannot be opened
DriverArgs == {"file", "help", "noInput", "unknownOption", "unreadable"}

\* the statements of the function body
DriverStatements ==
    {
    \* return;
    <<"r", "e", "t", "u", "r", "n", ";">>,
    \* return 1;
    <<"r", "e", "t", "u", "r", "n", " ", "1", ";">>,
    \* return x;
    <<"r", "e", "t", "u", "r", "n", " ", "x", ";">>,
    \* return 1 + x;
    <<"r", "e", "t", "u", "r", "n", " ", "1", " ", "+", " ", "x", ";">>,
    \* let x: Int32 = 1;
    <<"l", "e", "t", " ", "x", ":", " ", "I", "n", "t", "3", "2", " ", "=",
      " ", "1", ";">>,
    \* let x: Int64 = y;
    <<"l", "e", "t", " ", "x", ":", " ", "I", "n", "t", "6", "4", " ", "=",
      " ", "y", ";">>,
    \* x;
    <<"x", ";">>,
    \* x = 1;
    <<"x", " ", "=", " ", "1", ";">>,
    \* { x; }
    <<"{", " ", "x", ";", " ", "}">>,
    \* match 1 { _ => y }
    <<"m", "a", "t", "c", "h", " ", "1", " ", "{", " ", "_", " ", "=", ">",
      " ", "y", " ", "}">>,
    \* let x: Int64 = match 1 { _ => x };
    <<"l", "e", "t", " ", "x", ":", " ", "I", "n", "t", "6", "4", " ", "=",
      " ", "m", "a", "t", "c", "h", " ", "1", " ", "{", " ", "_", " ", "=",
      ">", " ", "x", " ", "}", ";">>,
    \* let x: Int64 = a { a: y };
    <<"l", "e", "t", " ", "x", ":", " ", "I", "n", "t", "6", "4", " ", "=",
      " ", "a", " ", "{", " ", "a", ":", " ", "y", " ", "}", ";">>,
    \* return 1
    <<"r", "e", "t", "u", "r", "n", " ", "1">> }

\* the return types of the function
DriverReturnTypes ==
    {<<"V", "o", "i", "d">>,
     <<"I", "n", "t", "3", "2">>,
     <<"I", "n", "t", "6", "4">>}

\* func f() -> ret { body }
DriverSource(ret, body) ==
    <<"f", "u", "n", "c", " ", "f", "(", ")", " ", "-", ">", " ">>
    \o ret \o <<" ", "{", " ">> \o Spell(body) \o <<"}">>

\* modules of functions that call one another, in either order of
\* declaration, and of functions that leave no loop
CallSources ==
    {
    \* func f() -> Void { g(); } func g() -> Void { }
    <<"f", "u", "n", "c", " ", "f", "(", ")", " ", "-", ">", " ", "V", "o",
      "i", "d", " ", "{", " ", "g", "(", ")", ";", " ", "}", " ", "f", "u",
      "n", "c", " ", "g", "(", ")", " ", "-", ">", " ", "V", "o", "i", "d",
      " ", "{", " ", "}">>,
    \* func g() -> Void { } func f() -> Void { g(); }
    <<"f", "u", "n", "c", " ", "g", "(", ")", " ", "-", ">", " ", "V", "o",
      "i", "d", " ", "{", " ", "}", " ", "f", "u", "n", "c", " ", "f", "(",
      ")", " ", "-", ">", " ", "V", "o", "i", "d", " ", "{", " ", "g", "(",
      ")", ";", " ", "}">>,
    \* func f() -> Int64 { return g(1); } func g(a: Int64) -> Int64 { return a; }
    <<"f", "u", "n", "c", " ", "f", "(", ")", " ", "-", ">", " ", "I", "n",
      "t", "6", "4", " ", "{", " ", "r", "e", "t", "u", "r", "n", " ", "g",
      "(", "1", ")", ";", " ", "}", " ", "f", "u", "n", "c", " ", "g", "(",
      "a", ":", " ", "I", "n", "t", "6", "4", ")", " ", "-", ">", " ", "I",
      "n", "t", "6", "4", " ", "{", " ", "r", "e", "t", "u", "r", "n", " ",
      "a", ";", " ", "}">>,
    \* func g(a: Int64) -> Int64 { return a; } func f() -> Int64 { return g(1); }
    <<"f", "u", "n", "c", " ", "g", "(", "a", ":", " ", "I", "n", "t", "6",
      "4", ")", " ", "-", ">", " ", "I", "n", "t", "6", "4", " ", "{", " ",
      "r", "e", "t", "u", "r", "n", " ", "a", ";", " ", "}", " ", "f", "u",
      "n", "c", " ", "f", "(", ")", " ", "-", ">", " ", "I", "n", "t", "6",
      "4", " ", "{", " ", "r", "e", "t", "u", "r", "n", " ", "g", "(", "1",
      ")", ";", " ", "}">>,
    \* func f() -> Void { f(); }
    <<"f", "u", "n", "c", " ", "f", "(", ")", " ", "-", ">", " ", "V", "o",
      "i", "d", " ", "{", " ", "f", "(", ")", ";", " ", "}">>,
    \* func f() -> Void { break; }
    <<"f", "u", "n", "c", " ", "f", "(", ")", " ", "-", ">", " ", "V", "o",
      "i", "d", " ", "{", " ", "b", "r", "e", "a", "k", ";", " ", "}">>,
    \* func f() -> Void { continue; }
    <<"f", "u", "n", "c", " ", "f", "(", ")", " ", "-", ">", " ", "V", "o",
      "i", "d", " ", "{", " ", "c", "o", "n", "t", "i", "n", "u", "e", ";",
      " ", "}">> }

\* functions in which a nested block declares a variable: of the name of a
\* variable or parameter of the enclosing block that is used after the
\* block, and of another name
ScopeSources ==
    {
    \* func f() -> Int64 { let x: Int64 = 1; { let x: Int64 = 2; } return x; }
    <<"f", "u", "n", "c", " ", "f", "(", ")", " ", "-", ">", " ", "I", "n",
      "t", "6", "4", " ", "{", " ", "l", "e", "t", " ", "x", ":", " ", "I",
      "n", "t", "6", "4", " ", "=", " ", "1", ";", " ", "{", " ", "l", "e",
      "t", " ", "x", ":", " ", "I", "n", "t", "6", "4", " ", "=", " ", "2",
      ";", " ", "}", " ", "r", "e", "t", "u", "r", "n", " ", "x", ";", " ",
      "}">>,
    \* func f() -> Int64 { let x: Int64 = 1; { let y: Int64 = 2; } return x; }
    <<"f", "u", "n", "c", " ", "f", "(", ")", " ", "-", ">", " ", "I", "n",
      "t", "6", "4", " ", "{", " ", "l", "e", "t", " ", "x", ":", " ", "I",
      "n", "t", "6", "4", " ", "=", " ", "1", ";", " ", "{", " ", "l", "e",
      "t", " ", "y", ":", " ", "I", "n", "t", "6", "4", " ", "=", " ", "2",
      ";", " ", "}", " ", "r", "e", "t", "u", "r", "n", " ", "x", ";", " ",
      "}">>,
    \* func f(x: Int64) -> Int64 { { let x: Int64 = 2; } return x; }
    <<"f", "u", "n", "c", " ", "f", "(", "x", ":", " ", "I", "n", "t", "6",
      "4", ")", " ", "-", ">", " ", "I", "n", "t", "6", "4", " ", "{", " ",
      "{", " ", "l", "e", "t", " ", "x", ":", " ", "I", "n", "t", "6", "4",
      " ", "=", " ", "2", ";", " ", "}", " ", "r", "e", "t", "u", "r", "n",
      " ", "x", ";", " ", "}">>,
    \* func f(x: Int64) -> Int64 { { let x: Int64 = x; x; } return x; }
    <<"f", "u", "n", "c", " ", "f", "(", "x", ":", " ", "I", "n", "t", "6",
      "4", ")", " ", "-", ">", " ", "I", "n", "t", "6", "4", " ", "{", " ",
      "{", " ", "l", "e", "t", " ", "x", ":", " ", "I", "n", "t", "6", "4",
      " ", "=", " ", "x", ";", " ", "x", ";", " ", "}", " ", "r", "e", "t",
      "u", "r", "n", " ", "x", ";", " ", "}">>,
    \* func f() -> Int64 { let x: Int64 = 1; { let x: Int64 = x; return x; } }
    <<"f", "u", "n", "c", " ", "f", "(", ")", " ", "-", ">", " ", "I", "n",
      "t", "6", "4", " ", "{", " ", "l", "e", "t", " ", "x", ":", " ", "I",
      "n", "t", "6", "4", " ", "=", " ", "1", ";", " ", "{", " ", "l", "e",
      "t", " ", "x", ":", " ", "I", "n", "t", "6", "4", " ", "=", " ", "x",
      ";", " ", "r", "e", "t", "u", "r", "n", " ", "x", ";", " ", "}", " ",
      "}">> }

\* modules of one function declared with a pub or public modifier
PublicDeclarations ==
    {
    \* pub func f() -> Void { }
    <<"p", "u", "b", " ", "f", "u", "n", "c", " ", "f", "(", ")", " ", "-",
      ">", " ", "V", "o", "i", "d", " ", "{", " ", "}">>,
    \* public func f() -> Void { }
    <<"p", "u", "b", "l", "i", "c", " ", "f", "u", "n", "c", " ", "f", "(",
      ")", " ", "-", ">", " ", "V", "o", "i", "d", " ", "{", " ", "}">>,
    \* pub func g(x: Int64) -> Int64 { return x; }
    <<"p", "u", "b", " ", "f", "u", "n", "c", " ", "g", "(", "x", ":", " ",
      "I", "n", "t", "6", "4", ")", " ", "-", ">", " ", "I", "n", "t", "6",
      "4", " ", "{", " ", "r", "e", "t", "u", "r", "n", " ", "x", ";", " ",
      "}">> }

\* modules of one function declared with no modifier or with private
PrivateDeclarations ==
    {
    \* func f() -> Void { }
    <<"f", "u", "n", "c", " ", "f", "(", ")", " ", "-", ">", " ", "V", "o",
      "i", "d", " ", "{", " ", "}">>,
    \* private func f() -> Void { }
    <<"p", "r", "i", "v", "a", "t", "e", " ", "f", "u", "n", "c", " ", "f",
      "(", ")", " ", "-", ">", " ", "V", "o", "i", "d", " ", "{", " ", "}">>,
    \* func g(x: Int64) -> Int64 { return x; }
    <<"f", "u", "n", "c", " ", "g", "(", "x", ":", " ", "I", "n", "t", "6",
      "4", ")", " ", "-", ">", " ", "I", "n", "t", "6", "4", " ", "{", " ",
      "r", "e", "t", "u", "r", "n", " ", "x", ";", " ", "}">>,
    \* private func main() -> Void { }
    <<"p", "r", "i", "v", "a", "t", "e", " ", "f", "u", "n", "c", " ", "m",
      "a", "i", "n", "(", ")", " ", "-", ">", " ", "V", "o", "i", "d", " ",
      "{", " ", "}">> }

\* modules of one function with and without a visibility modifier
VisibilitySources == PublicDeclarations \cup PrivateDeclarations

DriverSources ==
    {DriverSource(ret, body) :
        ret \in DriverReturnTypes,
        body \in SourcesOver(DriverStatements, MaxStmts)}
    \cup CallSources \cup ScopeSources \cup VisibilitySources

\* the driver before main runs; exitCode means nothing until pc is "exited"
NewDriver(args) ==
    [pc |-> "main", args |-> args, diags |-> <<>>, exitCode |-> 0,
     module |-> Null, scope |-> Scope("global"), resolved |-> FALSE,
     functions |-> <<>>]

InitDriver ==
    /\ driver \in {NewDriver(args) : args \in DriverArgs}
    /\ source \in IF driver.args = "file" THEN DriverSources ELSE {<<>>}
    /\ parser = NoParser
    /\ parserPc = "none"
    /\ lexer = NewLexer
    /\ diags = <<>>
    /\ lexPc = "none"
    /\ tokens = <<>>
    /\ pieces = <<>>
    /\ history = <<>>
    /\ returned = <<>>
    /\ saved = NoSave
    /\ sema = NoSema

\* return code; from main, or std::exit(code)
Exit(d, code) == [d EXCEPT !.pc = "exited", !.exitCode = code]

\* main from parseArgs to the construction of the Parser
DriverStart ==
    /\ driver.pc = "main"
    /\ IF driver.args = "file"
       THEN /\ parser' = NewParser(source)
            /\ parserPc' = "new"
            /\ driver' = [driver EXCEPT !.pc = "parse",
                                        !.diags = parser'.diags]
       ELSE /\ driver' = Exit(driver, IF driver.args = "help" THEN 0 ELSE 1)
            /\ UNCHANGED parserVars
    /\ UNCHANGED <<lexVars, sema>>

\* main: parser.parseModule() and the error count test after it; a parser
\* that does not return leaves the driver without an exit code
DriverParse ==
    /\ driver.pc = "parse"
    /\ parser' = Parse("parseModule", parser)
    /\ parserPc' = "parseModule"
    /\ driver' =
         IF parser'.status # "ok"
         THEN [driver EXCEPT !.pc = "stuck", !.diags = parser'.diags]
         ELSE IF getErrorCount(parser'.diags) > 0
         THEN Exit([driver EXCEPT !.diags = parser'.diags], 1)
         ELSE [driver EXCEPT !.pc = "sema", !.diags = parser'.diags,
                             !.module = parser'.val]
    /\ UNCHANGED <<lexVars, sema>>

\* main: sema.analyze(*module)
DriverSema ==
    /\ driver.pc = "sema"
    /\ LET analysis == analyze(driver.diags, driver.module)
           after == [driver EXCEPT !.diags = analysis.diags,
                                   !.scope = analysis.scope,
                                   !.resolved = analysis.resolved]
       IN  driver' = IF analysis.val THEN [after EXCEPT !.pc = "codegen"]
                     ELSE Exit(after, 1)
    /\ UNCHANGED <<lexVars, parserVars, sema>>

\* main: codegen.generate(*module) on a machine that has the target or
\* lacks it
DriverGenerate ==
    /\ driver.pc = "codegen"
    /\ \E targetOk \in BOOLEAN :
         LET codegen == generate(driver.diags, driver.module, targetOk)
             after == [driver EXCEPT !.diags = codegen.diags,
                                     !.functions = codegen.functions]
         IN  driver' = IF codegen.val THEN [after EXCEPT !.pc = "write"]
                       ELSE Exit(after, 1)
    /\ UNCHANGED <<lexVars, parserVars, sema>>

\* main: codegen.writeOutput(outFile), the output file opening or not, and
\* the return after it
DriverWrite ==
    /\ driver.pc = "write"
    /\ \E fileOk \in BOOLEAN :
         LET written == writeOutput(driver.diags, fileOk)
             after == [driver EXCEPT !.diags = written.diags]
         IN  driver' = Exit(after, IF written.val THEN 0 ELSE 1)
    /\ UNCHANGED <<lexVars, parserVars, sema>>

NextDriver ==
    DriverStart \/ DriverParse \/ DriverSema \/ DriverGenerate \/ DriverWrite

SpecDriver == InitDriver /\ [][NextDriver]_vars

\* ------------------------------------------------------------------------
\* Specification SpecSema: one call of Sema::analyze (Sema.cpp) on the
\* module the parser makes of a source text, followed pass by pass
\* ------------------------------------------------------------------------

\* top-level declarations, of every kind that registers a name, two of
\* them functions with a body
SemaDeclarations ==
    {
    \* func a() { x; }
    <<"f", "u", "n", "c", " ", "a", "(", ")", " ", "{", " ", "x", ";", " ",
      "}">>,
    \* struct a { }
    <<"s", "t", "r", "u", "c", "t", " ", "a", " ", "{", " ", "}">>,
    \* class a { }
    <<"c", "l", "a", "s", "s", " ", "a", " ", "{", " ", "}">>,
    \* enum a { }
    <<"e", "n", "u", "m", " ", "a", " ", "{", " ", "}">>,
    \* trait a { }
    <<"t", "r", "a", "i", "t", " ", "a", " ", "{", " ", "}">>,
    \* type a = Int32;
    <<"t", "y", "p", "e", " ", "a", " ", "=", " ", "I", "n", "t", "3", "2",
      ";">>,
    \* func b() { y; }
    <<"f", "u", "n", "c", " ", "b", "(", ")", " ", "{", " ", "y", ";", " ",
      "}">> }

\* modules of up to MaxDecls declarations
DeclarationSources == {Spell(d) : d \in SourcesOver(SemaDeclarations, MaxDecls)}

\* statements of a function body: bindings whose initialiser names the
\* variable bound, match arms that use what their pattern binds, uses of
\* variables as values and as conditions, break and continue inside and
\* outside a loop
SemaStatements ==
    {
    \* let x: Int64 = x;
    <<"l", "e", "t", " ", "x", ":", " ", "I", "n", "t", "6", "4", " ", "=",
      " ", "x", ";">>,
    \* const x: Int64 = x;
    <<"c", "o", "n", "s", "t", " ", "x", ":", " ", "I", "n", "t", "6", "4",
      " ", "=", " ", "x", ";">>,
    \* let x: Int64 = 1;
    <<"l", "e", "t", " ", "x", ":", " ", "I", "n", "t", "6", "4", " ", "=",
      " ", "1", ";">>,
    \* { let x: Int64 = x; }
    <<"{", " ", "l", "e", "t", " ", "x", ":", " ", "I", "n", "t", "6", "4",
      " ", "=", " ", "x", ";", " ", "}">>,
    \* let y: Int64 = match 1 { n => n };
    <<"l", "e", "t", " ", "y", ":", " ", "I", "n", "t", "6", "4", " ", "=",
      " ", "m", "a", "t", "c", "h", " ", "1", " ", "{", " ", "n", " ", "=",
      ">", " ", "n", " ", "}", ";">>,
    \* let y: Int64 = match 1 { (n, _) => n };
    <<"l", "e", "t", " ", "y", ":", " ", "I", "n", "t", "6", "4", " ", "=",
      " ", "m", "a", "t", "c", "h", " ", "1", " ", "{", " ", "(", "n", ",",
      " ", "_", ")", " ", "=", ">", " ", "n", " ", "}", ";">>,
    \* let y: Int64 = match 1 { a::b(n) if n => n };
    <<"l", "e", "t", " ", "y", ":", " ", "I", "n", "t", "6", "4", " ", "=",
      " ", "m", "a", "t", "c", "h", " ", "1", " ", "{", " ", "a", ":", ":",
      "b", "(", "n", ")", " ", "i", "f", " ", "n", " ", "=", ">", " ", "n",
      " ", "}", ";">>,
    \* let x: Bool = true;
    <<"l", "e", "t", " ", "x", ":", " ", "B", "o", "o", "l", " ", "=", " ",
      "t", "r", "u", "e", ";">>,
    \* let b: Int32 = x;
    <<"l", "e", "t", " ", "b", ":", " ", "I", "n", "t", "3", "2", " ", "=",
      " ", "x", ";">>,
    \* if x { x; }
    <<"i", "f", " ", "x", " ", "{", " ", "x", ";", " ", "}">>,
    \* while x { x; }
    <<"w", "h", "i", "l", "e", " ", "x", " ", "{", " ", "x", ";", " ", "}">>,
    \* break;
    <<"b", "r", "e", "a", "k", ";">>,
    \* continue;
    <<"c", "o", "n", "t", "i", "n", "u", "e", ";">>,
    \* while true { break; }
    <<"w", "h", "i", "l", "e", " ", "t", "r", "u", "e", " ", "{", " ", "b",
      "r", "e", "a", "k", ";", " ", "}">>,
    \* loop { continue; }
    <<"l", "o", "o", "p", " ", "{", " ", "c", "o", "n", "t", "i", "n", "u",
      "e", ";", " ", "}">> }

\* func f() -> Void { body }
StatementSources ==
    {FuncHeader \o Spell(b) \o <<"}">> :
        b \in SourcesOver(SemaStatements, MaxStmts)}

\* parameters of a function
SemaParams ==
    {
    \* a: Int32
    <<"a", ":", " ", "I", "n", "t", "3", "2">>,
    \* b: Int32
    <<"b", ":", " ", "I", "n", "t", "3", "2">>,
    \* a: Bool
    <<"a", ":", " ", "B", "o", "o", "l">>,
    \* b: c
    <<"b", ":", " ", "c">> }

\* bodies of a function that has parameters
SemaParamBodies ==
    {
    \* 
    <<>>,
    \* a;
    <<"a", ";">>,
    \* let c: Int32 = a;
    <<"l", "e", "t", " ", "c", ":", " ", "I", "n", "t", "3", "2", " ", "=",
      " ", "a", ";">>,
    \* if a { a; }
    <<"i", "f", " ", "a", " ", "{", " ", "a", ";", " ", "}">>,
    \* while a { a; }
    <<"w", "h", "i", "l", "e", " ", "a", " ", "{", " ", "a", ";", " ", "}">> }

RECURSIVE Listed(_)
\* the texts, a comma and a space between them
Listed(texts) ==
    IF texts = <<>> THEN <<>>
    ELSE IF Len(texts) = 1 THEN Head(texts)
    ELSE Head(texts) \o <<",", " ">> \o Listed(Tail(texts))

\* func f(params) -> ret { body }, ret being Void or the undeclared c
ParamSources ==
    {<<"f", "u", "n", "c", " ", "f", "(">> \o Listed(params)
        \o <<")", " ", "-", ">", " ">> \o ret \o <<" ", "{", " ">>
        \o body \o <<" ", "}">> :
        params \in SourcesOver(SemaParams, MaxParams),
        ret \in {<<"V", "o", "i", "d">>, <<"c">>},
        body \in SemaParamBodies}

\* declarations that refer to the type b, one of them declaring it
SemaTypeDeclarations ==
    {
    \* struct s { a: b }
    <<"s", "t", "r", "u", "c", "t", " ", "s", " ", "{", " ", "a", ":", " ",
      "b", " ", "}">>,
    \* struct t { a: Vec<b> }
    <<"s", "t", "r", "u", "c", "t", " ", "t", " ", "{", " ", "a", ":", " ",
      "V", "e", "c", "<", "b", ">", " ", "}">>,
    \* class u { a: b }
    <<"c", "l", "a", "s", "s", " ", "u", " ", "{", " ", "a", ":", " ", "b",
      " ", "}">>,
    \* enum v { a(b) }
    <<"e", "n", "u", "m", " ", "v", " ", "{", " ", "a", "(", "b", ")", " ",
      "}">>,
    \* type w = b;
    <<"t", "y", "p", "e", " ", "w", " ", "=", " ", "b", ";">>,
    \* type b = Int32;
    <<"t", "y", "p", "e", " ", "b", " ", "=", " ", "I", "n", "t", "3", "2",
      ";">>,
    \* func f(a: Vec<b>) -> b { }
    <<"f", "u", "n", "c", " ", "f", "(", "a", ":", " ", "V", "e", "c", "<",
      "b", ">", ")", " ", "-", ">", " ", "b", " ", "{", " ", "}">> }

\* modules of up to MaxDecls declarations that refer to types
TypeSources ==
    {Spell(d) : d \in SourcesOver(SemaTypeDeclarations, MaxDecls)}

\* declarations whose generic parameter list holds a lifetime parameter
LifetimeDeclarations ==
    {
    \* func f<'a>(x: Int32) -> Void { }
    <<"f", "u", "n", "c", " ", "f", "<", "'", "a", ">", "(", "x", ":", " ",
      "I", "n", "t", "3", "2", ")", " ", "-", ">", " ", "V", "o", "i", "d",
      " ", "{", " ", "}">>,
    \* struct s<'a> { }
    <<"s", "t", "r", "u", "c", "t", " ", "s", "<", "'", "a", ">", " ", "{",
      " ", "}">>,
    \* func f<'a, T>() -> Void { }
    <<"f", "u", "n", "c", " ", "f", "<", "'", "a", ",", " ", "T", ">", "(",
      ")", " ", "-", ">", " ", "V", "o", "i", "d", " ", "{", " ", "}">>,
    \* enum e<'a> { }
    <<"e", "n", "u", "m", " ", "e", "<", "'", "a", ">", " ", "{", " ", "}">> }

\* declarations with type parameters, used as the type of a parameter, of a
\* return value and of a field, unused, and bounded by traits
GenericDeclarations ==
    {
    \* struct p<A, B> { a: A, b: B }
    <<"s", "t", "r", "u", "c", "t", " ", "p", "<", "A", ",", " ", "B", ">",
      " ", "{", " ", "a", ":", " ", "A", ",", " ", "b", ":", " ", "B", " ",
      "}">>,
    \* func id<T>(x: T) -> T { return x; }
    <<"f", "u", "n", "c", " ", "i", "d", "<", "T", ">", "(", "x", ":", " ",
      "T", ")", " ", "-", ">", " ", "T", " ", "{", " ", "r", "e", "t", "u",
      "r", "n", " ", "x", ";", " ", "}">>,
    \* func g<T>(x: Int32) -> Void { }
    <<"f", "u", "n", "c", " ", "g", "<", "T", ">", "(", "x", ":", " ", "I",
      "n", "t", "3", "2", ")", " ", "-", ">", " ", "V", "o", "i", "d", " ",
      "{", " ", "}">>,
    \* func h<T: c + d, U: c>() -> Void { }
    <<"f", "u", "n", "c", " ", "h", "<", "T", ":", " ", "c", " ", "+", " ",
      "d", ",", " ", "U", ":", " ", "c", ">", "(", ")", " ", "-", ">", " ",
      "V", "o", "i", "d", " ", "{", " ", "}">>,
    \* class k<T> { a: T }
    <<"c", "l", "a", "s", "s", " ", "k", "<", "T", ">", " ", "{", " ", "a",
      ":", " ", "T", " ", "}">>,
    \* struct q<T> { a: Int32 }
    <<"s", "t", "r", "u", "c", "t", " ", "q", "<", "T", ">", " ", "{", " ",
      "a", ":", " ", "I", "n", "t", "3", "2", " ", "}">> }

\* modules of one declaration with generic parameters
GenericSources == LifetimeDeclarations \cup GenericDeclarations

\* the characters of the string literals used as patterns
PatternAlphabet == {"a", "b"}

\* the literals used as patterns: the text written and the literal
\* expression it denotes
LiteralPatterns ==
    {[text |-> <<"0">>,
      literal |-> [kind |-> "IntLiteralExpr", value |-> 0]],
     [text |-> <<"1", "0">>,
      literal |-> [kind |-> "IntLiteralExpr", value |-> 10]],
     [text |-> <<"t", "r", "u", "e">>,
      literal |-> [kind |-> "BoolLiteralExpr", value |-> TRUE]],
     [text |-> <<"f", "a", "l", "s", "e">>,
      literal |-> [kind |-> "BoolLiteralExpr", value |-> FALSE]]}
    \cup {[text |-> <<"\"">> \o cs \o <<"\"">>,
           literal |-> [kind |-> "StringLiteralExpr", value |-> Concat(cs)]] :
             cs \in SourcesOver(PatternAlphabet, MaxPatternLen)}

\* func f() -> Void { let y: Int64 = match 1 { pattern => 1 }; }
PatternSource(pattern) ==
    FuncHeader
        \o <<"l", "e", "t", " ", "y", ":", " ", "I", "n", "t", "6", "4", " ",
             "=", " ", "m", "a", "t", "c", "h", " ", "1", " ", "{", " ">>
        \o pattern \o <<" ", "=", ">", " ", "1", " ", "}", ";", " ", "}">>

\* functions whose one statement matches on a literal pattern
PatternSources == {PatternSource(l.text) : l \in LiteralPatterns}

\* an enum, a function whose body names a variant of it, and an enum with
\* another variant
EnumDeclarations ==
    {
    \* enum e { v }
    <<"e", "n", "u", "m", " ", "e", " ", "{", " ", "v", " ", "}">>,
    \* func f() -> Void { v; }
    <<"f", "u", "n", "c", " ", "f", "(", ")", " ", "-", ">", " ", "V", "o",
      "i", "d", " ", "{", " ", "v", ";", " ", "}">>,
    \* enum d { w(Int32) }
    <<"e", "n", "u", "m", " ", "d", " ", "{", " ", "w", "(", "I", "n", "t",
      "3", "2", ")", " ", "}">> }

\* modules of two of these declarations, in either order
EnumSources == {Spell(<<d1, d2>>) : d1 \in EnumDeclarations, d2 \in EnumDeclarations}

\* declarations with a generic type whose last type argument is generic, the
\* closing angle brackets adjacent
NestedGenericDeclarations ==
    {
    \* func f(a: Vec<Vec<Int32>>) -> Void { }
    <<"f", "u", "n", "c", " ", "f", "(", "a", ":", " ", "V", "e", "c", "<",
      "V", "e", "c", "<", "I", "n", "t", "3", "2", ">", ">", ")", " ", "-",
      ">", " ", "V", "o", "i", "d", " ", "{", " ", "}">>,
    \* struct s { a: Map<String, Option<Int32>> }
    <<"s", "t", "r", "u", "c", "t", " ", "s", " ", "{", " ", "a", ":", " ",
      "M", "a", "p", "<", "S", "t", "r", "i", "n", "g", ",", " ", "O", "p",
      "t", "i", "o", "n", "<", "I", "n", "t", "3", "2", ">", ">", " ", "}">>,
    \* type t = Vec<Vec<Int32>>;
    <<"t", "y", "p", "e", " ", "t", " ", "=", " ", "V", "e", "c", "<", "V",
      "e", "c", "<", "I", "n", "t", "3", "2", ">", ">", ";">> }

\* the same with a space between the closing angle brackets
SpacedGenericDeclarations ==
    {
    \* func f(a: Vec<Vec<Int32> >) -> Void { }
    <<"f", "u", "n", "c", " ", "f", "(", "a", ":", " ", "V", "e", "c", "<",
      "V", "e", "c", "<", "I", "n", "t", "3", "2", ">", " ", ">", ")", " ",
      "-", ">", " ", "V", "o", "i", "d", " ", "{", " ", "}">>,
    \* struct s { a: Map<String, Option<Int32> > }
    <<"s", "t", "r", "u", "c", "t", " ", "s", " ", "{", " ", "a", ":", " ",
      "M", "a", "p", "<", "S", "t", "r", "i", "n", "g", ",", " ", "O", "p",
      "t", "i", "o", "n", "<", "I", "n", "t", "3", "2", ">", " ", ">", " ",
      "}">>,
    \* type t = Vec<Vec<Int32> >;
    <<"t", "y", "p", "e", " ", "t", " ", "=", " ", "V", "e", "c", "<", "V",
      "e", "c", "<", "I", "n", "t", "3", "2", ">", " ", ">", ";">> }

\* modules of one declaration with a nested generic type
NestedGenericSources == NestedGenericDeclarations \cup SpacedGenericDeclarations

SemaSources ==
    DeclarationSources \cup StatementSources \cup ParamSources
        \cup TypeSources \cup GenericSources \cup PatternSources
        \cup EnumSources \cup NestedGenericSources

\* Sema::Sema(diag) on the DiagnosticEngine the parser reported to; val
\* means nothing until pc is "returned"
NewSema ==
    [pc |-> "parse", diags |-> <<>>, module |-> Null,
     scope |-> Scope("global"), looked |-> <<>>, errorsBefore |-> 0,
     resolved |-> <<>>, checked |-> FALSE, val |-> FALSE]

InitSema ==
    /\ source \in SemaSources
    /\ parser = NewParser(source)
    /\ parserPc = "new"
    /\ sema = NewSema
    /\ driver = NoDriver
    /\ lexer = NewLexer
    /\ diags = <<>>
    /\ lexPc = "none"
    /\ tokens = <<>>
    /\ pieces = <<>>
    /\ history = <<>>
    /\ returned = <<>>
    /\ saved = NoSave

\* parser.parseModule(); the module is handed to Sema::analyze when the
\* parser reported no error, as main does
SemaParse ==
    /\ sema.pc = "parse"
    /\ parser' = Parse("parseModule", parser)
    /\ parserPc' = "parseModule"
    /\ sema' =
         IF parser'.status = "ok" /\ getErrorCount(parser'.diags) = 0
         THEN [sema EXCEPT !.pc = "analyze", !.diags = parser'.diags,
                           !.module = parser'.val]
         ELSE [sema EXCEPT !.pc = "rejected", !.diags = parser'.diags]
    /\ UNCHANGED <<lexVars, driver>>

\* Sema::analyze up to the test of the error count: errorsBefore, the
\* NameResolver and its resolve; resolved keeps the diagnostics as name
\* resolution left them
SemaResolve ==
    /\ sema.pc = "analyze"
    /\ LET errorsBefore == getErrorCount(sema.diags)
           resolver == resolve(NewResolver(sema.diags, Scope("global")),
                               sema.module)
           after == [sema EXCEPT !.diags = resolver.diags,
                                 !.scope = resolver.chain[1],
                                 !.looked = resolver.looked,
                                 !.errorsBefore = errorsBefore,
                                 !.resolved = resolver.diags]
       IN  sema' = IF resolutionFailed(resolver.diags, errorsBefore)
                   THEN [after EXCEPT !.pc = "returned", !.val = FALSE]
                   ELSE [after EXCEPT !.pc = "check"]
    /\ UNCHANGED <<lexVars, parserVars, driver>>

\* Sema::analyze from the TypeChecker to its return
SemaCheck ==
    /\ sema.pc = "check"
    /\ LET checker == checkDecls(NewChecker(sema.diags, sema.scope),
                                 sema.module.declarations)
       IN  sema' = [sema EXCEPT !.pc = "returned", !.checked = TRUE,
                                !.diags = checker.diags,
                                !.val = getErrorCount(checker.diags)
                                            = sema.errorsBefore]
    /\ UNCHANGED <<lexVars, parserVars, driver>>

NextSema == SemaParse \/ SemaResolve \/ SemaCheck

SpecSema == InitSema /\ [][NextSema]_vars

\* ------------------------------------------------------------------------
\* Properties of the lexer
\* ------------------------------------------------------------------------

\* C1: lexAll returns normally for every source, and the vector it returns
\* holds exactly one Eof token, its last element.
C1_LexAllReturnsWithOneEof ==
    /\ lexPc # "threw"
    /\ lexPc = "done" =>
          /\ tokens # <<>>
          /\ tokens[Len(tokens)].kind = "Eof"
          /\ \A i \in 1..(Len(tokens) - 1) : tokens[i].kind # "Eof"

\* C6: every nextToken call records a lexical error diagnostic exactly when
\* the token it returns is Invalid, and then records exactly one.
C6_DiagnosticIffInvalid ==
    \A i \in 1..Len(history) :
        (history[i].op = "next" /\ ~history[i].threw) =>
            /\ (history[i].emitted > 0) <=> (history[i].tok.kind = "Invalid")
            /\ (history[i].tok.kind = "Invalid") => (history[i].emitted = 1)

\* the tokens nextToken returned since the last saveState
RunSinceSave == SubSeq(returned, Len(saved.returned) + 1, Len(returned))

\* C7: after st = saveState(); op; restoreState(st) every field of the lexer
\* has the value it had at saveState, and the nextToken calls that follow
\* return the tokens nextToken returns from the saved state.
C7_SaveRestoreIdentity ==
    /\ (history # <<>> /\ history[Len(history)].op = "restore") =>
           /\ lexer.current = saved.st.current
           /\ lexer.tokenStart = saved.st.tokenStart
           /\ lexer.line = saved.st.line
           /\ lexer.column = saved.st.column
           /\ lexer.tokenLine = saved.st.tokenLine
           /\ lexer.tokenColumn = saved.st.tokenColumn
           /\ lexer.hasPeeked = saved.st.hasPeeked
           /\ lexer.peekedToken = saved.st.peekedToken
    /\ saved.restored =>
           RunSinceSave = firstTokens(source, saved.st, Len(RunSinceSave))

\* C7 witness: a token other than Eof returned by nextToken after a restore
\* that undid at least one nextToken or peekToken call
C7_Witness ==
    /\ saved.restored
    /\ saved.opCalls >= 2
    /\ history[Len(history)].op = "next"
    /\ history[Len(history) - 1].op = "restore"
    /\ history[Len(history)].tok.kind # "Eof"

\* C8: a peekToken or nextToken call right after a peekToken returns the
\* same token, and the tokens nextToken hands out, peeks interleaved or not,
\* are the tokens of the source in order, none skipped and none repeated.
C8_PeekThenNext ==
    /\ \A i \in 2..Len(history) :
          (/\ history[i - 1].op = "peek" /\ ~history[i - 1].threw
           /\ history[i].op \in {"peek", "next"}) =>
              (~history[i].threw /\ history[i].tok = history[i - 1].tok)
    /\ returned = firstTokens(source, NewLexer, Len(returned))

\* C8 witness: peek, peek, next, next over a source of two tokens or more
C8_Witness ==
    /\ Len(history) = 4
    /\ history[1].op = "peek" /\ history[2].op = "peek"
    /\ history[3].op = "next" /\ history[4].op = "next"
    /\ history[3].tok.kind # "Eof" /\ history[4].tok.kind # "Eof"

\* the text lexAll's tokens and the skipped pieces between them spell
RECURSIVE Spelled(_, _)
Spelled(ps, quoteStrings) ==
    IF ps = <<>> THEN ""
    ELSE LET p == Head(ps)
             text == IF quoteStrings /\ p.tok.kind = "StringLiteral"
                     THEN "\"" \o p.tok.text \o "\""
                     ELSE p.tok.text
         IN  p.skipped \o text \o Spelled(Tail(ps), quoteStrings)

ParserModelCoversRun == parser.status # "outside"

\* C2: for every token stream parseModule terminates and returns a Module
\* with the parser at EOF: no loop of the parser repeats an iteration that
\* consumes nothing, and the call ends neither by an exception nor in
\* undefined behaviour.
C2_ParseModuleTerminates ==
    parserPc = "parseModule" =>
        /\ parser.status = "ok"
        /\ parser.val.kind = "Module"
        /\ parser.cur.kind = "Eof"

\* the kind of the i-th token of a token sequence, Eof past its end
KindAt(toks, i) == IF i <= Len(toks) THEN toks[i].kind ELSE "Eof"

RECURSIVE PathEnd(_, _)
\* the index of the last token of the path IDENT (:: IDENT)* that starts
\* at index i of toks, where an identifier is
PathEnd(toks, i) ==
    IF KindAt(toks, i + 1) = "ColonColon" /\ KindAt(toks, i + 2) = "Identifier"
    THEN PathEnd(toks, i + 2)
    ELSE i

\* C10: when an identifier or a `::`-separated path is immediately followed
\* by `{`, parsePrimary returns a struct literal if and only if the token
\* after `{` is `}` or the two tokens after it are an identifier and `:`;
\* otherwise it returns the identifier or path expression and `{` is left
\* as the current token.
C10_StructLiteralLookahead ==
    LET toks == firstTokens(source, NewLexer, MaxExprLen + 2)
        n == PathEnd(toks, 1)
        literal == \/ KindAt(toks, n + 2) = "RBrace"
                   \/ /\ KindAt(toks, n + 2) = "Identifier"
                      /\ KindAt(toks, n + 3) = "Colon"
    IN  (/\ parserPc = "parsePrimary"
         /\ parser.status = "ok"
         /\ KindAt(toks, 1) = "Identifier"
         /\ KindAt(toks, n + 1) = "LBrace")
        => /\ (parser.val.kind = "StructLiteralExpr") <=> literal
           /\ ~literal =>
                /\ parser.val.kind = (IF n = 1 THEN "IdentExpr"
                                      ELSE "PathExpr")
                /\ parser.cur.kind = "LBrace"

\* ------------------------------------------------------------------------
\* Properties of the driver, name resolution and lowering
\* ------------------------------------------------------------------------

\* every source of SpecDriver is parsed to the end and stays inside the
\* part of the parser that is modelled
DriverModelCoversRun == driver.pc # "stuck"

\* the nodes below a node in the order of the resolver's walk, each with
\* whether NameResolver::resolveStmt or resolveExpr goes into it
Below(node) ==
    LET Walked(nodes) == [i \in DOMAIN nodes |->
                            [node |-> nodes[i], visited |-> TRUE]]
        Skipped(nodes) == [i \in DOMAIN nodes |->
                            [node |-> nodes[i], visited |-> FALSE]]
    IN  CASE node.kind = "Module" -> Walked(node.declarations)
          [] node.kind = "FuncDecl" ->
                IF node.body = Null THEN <<>>
                ELSE Walked(node.body.statements)
          [] node.kind = "LetStmt" -> Walked(<<node.init>>)
          [] node.kind = "ReturnStmt" -> Walked(<<node.value>>)
          [] node.kind = "ExprStmt" -> Walked(<<node.expr>>)
          [] node.kind = "BlockStmt" -> Walked(node.statements)
          [] node.kind = "MatchStmt" ->
                Walked(<<node.scrutinee>>)
                \o Skipped([i \in DOMAIN node.arms |-> node.arms[i].body])
          [] node.kind = "BinaryExpr" -> Walked(<<node.lhs, node.rhs>>)
          [] node.kind = "CallExpr" ->
                Walked(<<node.callee>> \o node.arguments)
          [] node.kind \in {"AssignExpr", "CompoundAssignExpr"} ->
                Walked(<<node.target, node.value>>)
          [] node.kind = "BlockExpr" ->
                Walked(node.statements \o <<node.finalExpr>>)
          [] node.kind = "MatchExpr" ->
                Walked(<<node.scrutinee>>)
                \o Walked([i \in DOMAIN node.arms |->
                            [kind |-> "MatchArm",
                             body |-> node.arms[i].body]])
          [] node.kind = "MatchArm" -> Walked(<<node.body>>)
          [] node.kind = "StructLiteralExpr" ->
                Skipped([i \in DOMAIN node.fields |-> node.fields[i].value])
          [] OTHER -> <<>>

\* the nodes at which the resolver's walk enters a scope of its own
OpensScope(node) ==
    node.kind \in {"FuncDecl", "BlockStmt", "BlockExpr", "MatchArm"}

RECURSIVE Unbound(_, _, _, _)
\* the identifier expressions in and below the given nodes that name no
\* symbol of the scope enclosing them or of its ancestors.  chain is that
\* scope with its ancestors as name resolution left them, taken is the
\* number of its children entered so far, visited tells whether the
\* resolver's walk came here: where it did not, it made no scope
Unbound(parts, chain, taken, visited) ==
    IF parts = <<>> THEN [names |-> {}, taken |-> taken]
    ELSE LET node == Head(parts).node
             seen == visited /\ Head(parts).visited
             opens == seen /\ OpensScope(node)
             own == chain[Len(chain)].children[taken + 1]
             inner == IF opens
                      THEN Unbound(Below(node), Append(chain, own), 0, seen)
                      ELSE Unbound(Below(node), chain, taken, seen)
             here == IF node.kind = "IdentExpr"
                        /\ lookup(chain, Len(chain), node.name) = Null
                     THEN {node.name}
                     ELSE {}
             rest == Unbound(Tail(parts), chain,
                             IF opens THEN taken + 1 ELSE inner.taken,
                             visited)
         IN  [names |-> here \cup inner.names \cup rest.names,
              taken |-> rest.taken]

\* C4: when name resolution of a module ends without an error, every
\* identifier expression of the module, those of match arms and of struct
\* literal fields included, names a symbol of the scope enclosing it or of
\* one of that scope's ancestors
C4_ResolvedIdentifiersAreBound ==
    driver.resolved =>
        Unbound(<<[node |-> driver.module, visited |-> TRUE]>>,
                <<driver.scope>>, 0, TRUE).names = {}

\* C5: when lexing, parsing, name resolution and type checking ended with
\* zero errors and the functions of the module were lowered, no Error
\* diagnostic is recorded: no function failed IR verification
C5_LoweringRecordsNoError ==
    driver.pc = "write" => getErrorCount(driver.diags) = 0

\* C3: a run of the driver that has exited has a non-zero exit code if
\* and only if a diagnostic of severity Error or Fatal was recorded
C3_ExitCodeReflectsErrors ==
    driver.pc = "exited" =>
        (driver.exitCode # 0 <=> getErrorCount(driver.diags) > 0)


\* ------------------------------------------------------------------------
\* Properties of the expression parser
\* ------------------------------------------------------------------------

\* the operator token kinds by level, from the level that binds loosest
OperatorLevels ==
    << {"Equal", "PlusEqual", "MinusEqual", "StarEqual", "SlashEqual",
        "PercentEqual", "AmpersandEqual", "PipeEqual", "CaretEqual"},
       {"KwOr"}, {"KwAnd"}, {"EqualEqual", "BangEqual"},
       {"Less", "LessEqual", "Greater", "GreaterEqual"}, {"Pipe"},
       {"Caret"}, {"Ampersand"}, {"ShiftLeft", "ShiftRight"},
       {"Plus", "Minus"}, {"Star", "Slash", "Percent"} >>

LevelOf(kind) == CHOOSE i \in DOMAIN OperatorLevels : kind \in OperatorLevels[i]

\* the operator of the syntax tree each operator token stands for
OperatorNames ==
    ("PlusEqual" :> "AddAssign") @@ ("MinusEqual" :> "SubAssign") @@
    ("StarEqual" :> "MulAssign") @@ ("SlashEqual" :> "DivAssign") @@
    ("PercentEqual" :> "ModAssign") @@ ("AmpersandEqual" :> "AndAssign") @@
    ("PipeEqual" :> "OrAssign") @@ ("CaretEqual" :> "XorAssign") @@
    ("KwOr" :> "Or") @@ ("KwAnd" :> "And") @@ ("EqualEqual" :> "Equal") @@
    ("BangEqual" :> "NotEqual") @@ ("Less" :> "Less") @@
    ("LessEqual" :> "LessEqual") @@ ("Greater" :> "Greater") @@
    ("GreaterEqual" :> "GreaterEqual") @@ ("Pipe" :> "BitOr") @@
    ("Caret" :> "BitXor") @@ ("Ampersand" :> "BitAnd") @@
    ("ShiftLeft" :> "ShiftLeft") @@ ("ShiftRight" :> "ShiftRight") @@
    ("Plus" :> "Add") @@ ("Minus" :> "Sub") @@ ("Star" :> "Mul") @@
    ("Slash" :> "Div") @@ ("Percent" :> "Mod")

\* the node of the operator token `kind` over the operands l and r
Applied(kind, l, r) ==
    IF kind = "Equal"
    THEN [kind |-> "AssignExpr", target |-> l, value |-> r]
    ELSE IF LevelOf(kind) = 1
    THEN [kind |-> "CompoundAssignExpr", op |-> OperatorNames[kind],
          target |-> l, value |-> r]
    ELSE [kind |-> "BinaryExpr", op |-> OperatorNames[kind], lhs |-> l,
          rhs |-> r]

Operand(name) == [kind |-> "IdentExpr", name |-> name]

\* (a op1 b) op2 c
GroupedLeft(op1, op2) ==
    Applied(op2, Applied(op1, Operand("a"), Operand("b")), Operand("c"))

\* a op1 (b op2 c)
GroupedRight(op1, op2) ==
    Applied(op1, Operand("a"), Applied(op2, Operand("b"), Operand("c")))

\* the kinds of the first tokens of the source
SourceKinds == [i \in 1..5 |-> firstTokens(source, NewLexer, 5)[i].kind]

\* C11: the tree parsed from `a op1 b op2 c` groups the operator of the
\* higher level first, two operators of one level other than assignment to
\* the left, and two assignment or compound assignment operators to the
\* right.
C11_PrecedenceAndAssociativity ==
    parserPc = "parseExpression" =>
        LET op1 == SourceKinds[2]
            op2 == SourceKinds[4]
        IN  /\ parser.status = "ok"
            /\ parser.val =
                 IF LevelOf(op1) > LevelOf(op2)
                    \/ (LevelOf(op1) = LevelOf(op2) /\ LevelOf(op1) # 1)
                 THEN GroupedLeft(op1, op2)
                 ELSE GroupedRight(op1, op2)

\* C11 witness: `a + b * c` parsed with Add at the root and Mul as its
\* right child
C11_Witness ==
    /\ parserPc = "parseExpression"
    /\ SourceKinds[2] = "Plus" /\ SourceKinds[4] = "Star"
    /\ parser.val.op = "Add"
    /\ parser.val.rhs.op = "Mul"

\* ------------------------------------------------------------------------
\* Properties of semantic analysis
\* ------------------------------------------------------------------------

\* name resolution of the module has returned
Resolved == sema.pc \in {"check", "returned"}

\* the top-level declarations of the module named name, in source order
Declared(name) ==
    SelectSeq(sema.module.declarations, LAMBDA d : d.name = name)

\* the errors `redefinition of '<name>'` name resolution emitted, in the
\* order it emitted them
Redefinitions(name) ==
    SelectSeq(sema.resolved,
              LAMBDA d : /\ d.severity = "Error"
                         /\ d.message = "redefinition of '" \o name \o "'")

\* the identifiers resolveExpr looked up, in the order it met them
LookedUp ==
    LET lookups == SelectSeq(sema.looked, LAMBDA l : l.op = "lookup")
    IN  [i \in DOMAIN lookups |-> lookups[i].name]

RECURSIVE BodyIdentifiers(_)
\* the identifiers that are the expression statements of the bodies of
\* the functions among decls, in source order
BodyIdentifiers(decls) ==
    IF decls = <<>> THEN <<>>
    ELSE (IF Head(decls).kind = "FuncDecl"
          THEN LET idents == SelectSeq(Head(decls).body.statements,
                                 LAMBDA s : /\ s.kind = "ExprStmt"
                                            /\ s.expr.kind = "IdentExpr")
               IN  [i \in DOMAIN idents |-> idents[i].expr.name]
          ELSE <<>>) \o BodyIdentifiers(Tail(decls))

\* the names of the declarations resolveDecl opened a scope for, in the
\* order it opened them
Entered ==
    LET names == {sema.module.declarations[i].name :
                     i \in DOMAIN sema.module.declarations}
        enters == SelectSeq(sema.looked,
                            LAMBDA l : l.op = "enter" /\ l.name \in names)
    IN  [i \in DOMAIN enters |-> enters[i].name]

\* the names of the declarations that have a scope of their own, in
\* source order
Scoped ==
    LET decls == SelectSeq(sema.module.declarations,
                     LAMBDA d : d.kind \in {"FuncDecl", "StructDecl",
                                            "ClassDecl", "TraitDecl"})
    IN  [i \in DOMAIN decls |-> decls[i].name]

\* every statement of every function body is an identifier
PlainBodies ==
    \A i \in DOMAIN sema.module.declarations :
        LET decl == sema.module.declarations[i]
        IN  decl.kind = "FuncDecl" =>
                \A j \in DOMAIN decl.body.statements :
                    /\ decl.body.statements[j].kind = "ExprStmt"
                    /\ decl.body.statements[j].expr.kind = "IdentExpr"

SemaModelCoversRun == parser.status # "outside"

\* Sema::analyze has returned
Analyzed == sema.pc = "returned"

\* the names of the parameters of decl are pairwise distinct
DistinctParams(decl) ==
    \A i, j \in DOMAIN decl.params :
        decl.params[i].name = decl.params[j].name => i = j

\* C13: when Sema::analyze reports success, the parameter names of every
\* function that has a body are pairwise distinct.
C13_SuccessMeansDistinctParams ==
    Analyzed /\ sema.val =>
        \A i \in DOMAIN sema.module.declarations :
            LET decl == sema.module.declarations[i]
            IN  decl.kind = "FuncDecl" /\ decl.body # Null =>
                    DistinctParams(decl)

RECURSIVE Open(_)
\* the scopes open after the events of a trace of the resolver, outermost
\* first, each the set of the names inserted in it
Open(trace) ==
    IF trace = <<>> THEN <<{}>>
    ELSE LET before == Open(SubSeq(trace, 1, Len(trace) - 1))
             event == trace[Len(trace)]
         IN  CASE event.op = "enter" -> Append(before, {})
               [] event.op = "exit" -> SubSeq(before, 1, Len(before) - 1)
               [] event.op = "insert" ->
                     [before EXCEPT ![Len(before)] = @ \cup {event.name}]
               [] OTHER -> before

\* the innermost of the scopes that binds name, 0 when none does
BoundAt(scopes, name) ==
    LET binding == {n \in DOMAIN scopes : name \in scopes[n]}
    IN  IF binding = {} THEN 0
        ELSE CHOOSE n \in binding : \A m \in binding : m <= n

\* the errors `use of undeclared identifier '<name>'` of name resolution
Undeclared(name) ==
    SelectSeq(sema.resolved,
              LAMBDA d : d.message = "use of undeclared identifier '"
                                     \o name \o "'")

RECURSIVE Binds(_)
\* the identifiers a pattern binds
Binds(pattern) ==
    CASE pattern.kind = "IdentPattern" -> {pattern.name}
      [] pattern.kind = "TuplePattern" ->
            UNION {Binds(pattern.elements[i]) :
                      i \in DOMAIN pattern.elements}
      [] pattern.kind = "ConstructorPattern" ->
            UNION ({Binds(pattern.positionalFields[i]) :
                       i \in DOMAIN pattern.positionalFields}
                   \cup {Binds(pattern.namedFields[i].pattern) :
                            i \in DOMAIN pattern.namedFields})
      [] OTHER -> {}

\* the arms of the match expressions that initialise a let statement of a
\* function body
InitialiserArms ==
    UNION {LET decl == sema.module.declarations[i]
           IN  IF decl.kind # "FuncDecl" THEN {}
               ELSE UNION {LET stmt == decl.body.statements[j]
                           IN  IF stmt.kind = "LetStmt"
                                  /\ stmt.init.kind = "MatchExpr"
                               THEN {stmt.init.arms[k] :
                                        k \in DOMAIN stmt.init.arms}
                               ELSE {} :
                           j \in DOMAIN decl.body.statements} :
           i \in DOMAIN sema.module.declarations}

\* C15: an identifier bound by the pattern of a match arm is in scope in
\* the body of the arm: its use there gives no `use of undeclared
\* identifier` error.
C15_PatternBindingsInScope ==
    Resolved =>
        \A arm \in InitialiserArms :
            arm.body.kind = "IdentExpr" /\ arm.body.name \in Binds(arm.pattern)
                => Undeclared(arm.body.name) = <<>>

\* C16: the type checker starts only after name resolution of the whole
\* module has returned, and not at all when name resolution added an
\* error: analyze then returns false with the diagnostics as name
\* resolution left them.  When the checker did run, name resolution had
\* added no error and what the checker emitted follows what it had emitted.
C16_CheckOnlyAfterCleanResolution ==
    /\ sema.pc = "check" => ~sema.checked
    /\ sema.pc \in {"check", "returned"} =>
         IF getErrorCount(sema.resolved) > sema.errorsBefore
         THEN /\ sema.pc = "returned"
              /\ ~sema.checked
              /\ ~sema.val
              /\ sema.diags = sema.resolved
         ELSE /\ Len(sema.resolved) <= Len(sema.diags)
              /\ SubSeq(sema.diags, 1, Len(sema.resolved)) = sema.resolved
              /\ sema.pc = "returned" => sema.checked
    /\ sema.pc \in {"parse", "analyze", "rejected"} => ~sema.checked

\* analyze returned false on `func f() -> Void { let x: Int64 = x; }`
\* without starting the checker
C16_Witness ==
    /\ Analyzed
    /\ Len(Undeclared("x")) = 1
    /\ getErrorCount(sema.resolved) = sema.errorsBefore + 1
    /\ ~sema.checked
    /\ ~sema.val

\* the declared type of the binding the identifier name refers to at the
\* j-th statement of the body of decl: that of the last let or const
\* statement of the body before it that binds name, else that of the
\* parameter of that name, "" when there is neither
DeclaredType(decl, j, name) ==
    LET stmts == decl.body.statements
        binding == {i \in 1..(j - 1) :
                       /\ stmts[i].kind \in {"LetStmt", "ConstStmt"}
                       /\ stmts[i].name = name}
        params == {i \in DOMAIN decl.params : decl.params[i].name = name}
    IN  IF binding # {}
        THEN typeToString(
                 stmts[CHOOSE i \in binding : \A k \in binding : k <= i].type)
        ELSE IF params # {}
        THEN typeToString(decl.params[CHOOSE i \in params : TRUE].type)
        ELSE ""

\* an Error diagnostic with this message was emitted
Reported(message) ==
    \E i \in DOMAIN sema.diags :
        /\ sema.diags[i].severity = "Error"
        /\ sema.diags[i].message = message

\* C17: the checked type of an identifier that names a parameter or a
\* let/const-bound local is the declared type of that binding: a let whose
\* initialiser is such an identifier of an incompatible type is reported
\* as a type mismatch, and such an identifier of a type other than Bool
\* used as the condition of an if or a while is reported.
C17_IdentifierHasDeclaredType ==
    sema.checked =>
        \A d \in DOMAIN sema.module.declarations :
            LET decl == sema.module.declarations[d]
            IN  decl.kind = "FuncDecl" =>
                \A j \in DOMAIN decl.body.statements :
                    LET stmt == decl.body.statements[j]
                    IN  /\ stmt.kind = "LetStmt"
                           /\ stmt.init.kind = "IdentExpr" =>
                             LET actual == DeclaredType(decl, j,
                                                        stmt.init.name)
                                 expected == typeToString(stmt.type)
                             IN  actual # ""
                                 /\ ~typesCompatible(expected, actual) =>
                                     Reported("type mismatch: expected '"
                                              \o expected \o "', got '"
                                              \o actual \o "'")
                        /\ stmt.kind \in {"IfStmt", "WhileStmt"}
                           /\ stmt.condition.kind = "IdentExpr" =>
                             LET actual == DeclaredType(decl, j,
                                               stmt.condition.name)
                             IN  actual \notin {"", "Bool"} =>
                                     Reported("condition must be of type "
                                              \o "'Bool', got '" \o actual
                                              \o "'")

RECURSIVE TypeNames(_)
\* the type names a type reference holds: its own and those of its generic
\* type arguments
TypeNames(type) ==
    IF type.kind = "GenericType"
    THEN {joinPath(type.base.path, 1)}
         \cup UNION {TypeNames(type.typeArgs[i]) :
                        i \in DOMAIN type.typeArgs}
    ELSE {joinPath(type.path, 1)}

\* the types referred to by the parameters, return type, fields, enum
\* payloads or alias target of a declaration
TypeReferences(decl) ==
    CASE decl.kind = "FuncDecl" ->
            {decl.params[i].type : i \in DOMAIN decl.params}
            \cup (IF decl.returnType # Null THEN {decl.returnType} ELSE {})
      [] decl.kind \in {"StructDecl", "ClassDecl"} ->
            {decl.fields[i].type : i \in DOMAIN decl.fields}
      [] decl.kind = "EnumDecl" ->
            UNION {{decl.variants[i].tupleFields[j] :
                       j \in DOMAIN decl.variants[i].tupleFields} :
                   i \in DOMAIN decl.variants}
      [] decl.kind = "TypeAliasDecl" -> {decl.aliasedType}
      [] OTHER -> {}

\* the names of the types the module declares
DeclaredTypes ==
    {sema.module.declarations[i].name :
        i \in {j \in DOMAIN sema.module.declarations :
                  sema.module.declarations[j].kind \in
                      {"StructDecl", "ClassDecl", "EnumDecl", "TraitDecl",
                       "TypeAliasDecl"}}}

\* the Error diagnostics placed at the location of decl
ErrorsAt(decl) ==
    {i \in DOMAIN sema.diags :
        /\ sema.diags[i].severity = "Error"
        /\ sema.diags[i].line = decl.location.line
        /\ sema.diags[i].column = decl.location.column}

\* C18: type checking emits an error for every type reference of a
\* declaration (parameter, return type, field, enum payload, alias target)
\* that names, itself or in a generic type argument, a type that is neither
\* built in nor declared in the module: a declaration that holds such a
\* reference has an Error at its location.
C18_UnknownTypesReported ==
    sema.checked =>
        \A d \in DOMAIN sema.module.declarations :
            LET decl == sema.module.declarations[d]
            IN  (\E type \in TypeReferences(decl) :
                    \E name \in TypeNames(type) :
                        name \notin BuiltinTypes \cup DeclaredTypes)
                    => ErrorsAt(decl) # {}

RECURSIVE StrayJump(_)
\* a break or continue among stmts, or in the blocks and if branches
\* among them, that is in the body of no loop
StrayJump(stmts) ==
    \E i \in DOMAIN stmts :
        CASE stmts[i].kind \in {"BreakStmt", "ContinueStmt"} -> TRUE
          [] stmts[i].kind = "BlockStmt" -> StrayJump(stmts[i].statements)
          [] stmts[i].kind = "IfStmt" ->
                \/ StrayJump(<<stmts[i].thenBranch>>)
                \/ /\ stmts[i].elseBranch # Null
                   /\ StrayJump(<<stmts[i].elseBranch>>)
          [] OTHER -> FALSE

\* C19: a break or continue that is in the body of no loop gives an Error
\* by the end of type checking, so that the module never reaches IR
\* emission, which main starts only when analyze returned true.
C19_StrayJumpIsAnError ==
    Analyzed =>
        \A d \in DOMAIN sema.module.declarations :
            LET decl == sema.module.declarations[d]
            IN  decl.kind = "FuncDecl" /\ StrayJump(decl.body.statements) =>
                    /\ getErrorCount(sema.diags) > 0
                    /\ ~sema.val

\* ------------------------------------------------------------------------
\* Properties of the lowering of calls
\* ------------------------------------------------------------------------

\* the names of the functions the module of the run declares
DeclaredFunctions ==
    {driver.module.declarations[i].name :
        i \in {j \in DOMAIN driver.module.declarations :
                  driver.module.declarations[j].kind = "FuncDecl"}}

\* the names called by the expression statements and return values of the
\* function bodies of the module
Callees ==
    UNION {LET stmts == driver.module.declarations[d].body.statements
           IN  {stmts[i].expr.callee.name :
                   i \in {j \in DOMAIN stmts :
                             /\ stmts[j].kind = "ExprStmt"
                             /\ stmts[j].expr.kind = "CallExpr"
                             /\ stmts[j].expr.callee.kind = "IdentExpr"}}
               \cup
               {stmts[i].value.callee.name :
                   i \in {j \in DOMAIN stmts :
                             /\ stmts[j].kind = "ReturnStmt"
                             /\ stmts[j].value.kind = "CallExpr"
                             /\ stmts[j].value.callee.kind = "IdentExpr"}} :
           d \in {k \in DOMAIN driver.module.declarations :
                     driver.module.declarations[k].kind = "FuncDecl"}}

\* C20: once CodeGen::generate has lowered the module, a call to a
\* function the module declares, before or after the caller, has given no
\* `unknown function` diagnostic.
C20_CallsResolveInAnyOrder ==
    driver.pc = "write" =>
        \A name \in Callees \cap DeclaredFunctions :
            \A i \in DOMAIN driver.diags :
                driver.diags[i].message
                    # "unknown function '" \o name \o "'"

\* ------------------------------------------------------------------------
\* Properties of character literals
\* ------------------------------------------------------------------------

\* the source is a single quote, one character that is neither the single
\* quote, the backslash nor the newline, and a single quote
QuotedCharacter ==
    /\ Len(source) = 3
    /\ source[1] = "'"
    /\ source[3] = "'"
    /\ source[2] \notin {"'", "\\", "\n"}

\* C21: a single quote, one character other than the single quote, the
\* backslash and the newline, and a single quote lex as exactly one
\* CharLiteral token followed by EOF, with no diagnostic.
C21_QuotedCharacterIsCharLiteral ==
    (QuotedCharacter /\ lexPc = "done") =>
        /\ Len(tokens) = 2
        /\ tokens[1].kind = "CharLiteral"
        /\ tokens[2].kind = "Eof"
        /\ diags = <<>>

\* ------------------------------------------------------------------------
\* Properties of generic parameters
\* ------------------------------------------------------------------------

\* parseModule has returned
Parsed == parserPc = "parseModule" /\ parser.status = "ok"

\* C22: a generic parameter list that holds the lifetime parameter 'a
\* parses with zero diagnostics and its first generic parameter has the
\* lifetime a.
C22_LifetimeParameterParses ==
    (source \in LifetimeDeclarations /\ Parsed) =>
        /\ parser.diags = <<>>
        /\ Len(parser.val.declarations) = 1
        /\ Len(parser.val.declarations[1].genericParams) >= 1
        /\ parser.val.declarations[1].genericParams[1].lifetime = "a"

\* ------------------------------------------------------------------------
\* Properties of literal patterns
\* ------------------------------------------------------------------------

\* the pattern of the first arm of the match expression that initialises
\* the first statement of the first function
ArmPattern ==
    parser.val.declarations[1].body.statements[1].init.arms[1].pattern

\* C23: an integer, string or boolean literal in pattern position parses
\* as a Literal pattern with no diagnostic and no exception, and the value
\* of the pattern is the value of the literal; for a string, the
\* characters between the quotes, whatever their number.
C23_LiteralPatternKeepsValue ==
    \A l \in LiteralPatterns :
        (source = PatternSource(l.text) /\ parserPc = "parseModule") =>
            /\ parser.status = "ok"
            /\ parser.diags = <<>>
            /\ ArmPattern = [kind |-> "LiteralPattern", literal |-> l.literal]

\* ------------------------------------------------------------------------
\* Properties of paths
\* ------------------------------------------------------------------------

\* the nodes directly below a node of the AST: declarations, statements,
\* expressions, types and patterns alike; the variants of an enum and the
\* arms of a match stand as nodes of their own
Parts(node) ==
    CASE node.kind = "Module" -> node.declarations
      [] node.kind = "FuncDecl" ->
            [i \in DOMAIN node.params |-> node.params[i].type]
            \o <<node.returnType, node.body>>
      [] node.kind \in {"StructDecl", "ClassDecl"} ->
            [i \in DOMAIN node.fields |-> node.fields[i].type]
      [] node.kind = "EnumDecl" ->
            [i \in DOMAIN node.variants |->
                [kind |-> "EnumVariant",
                 tupleFields |-> node.variants[i].tupleFields]]
      [] node.kind = "EnumVariant" -> node.tupleFields
      [] node.kind = "TraitDecl" -> node.methods
      [] node.kind = "TypeAliasDecl" -> <<node.aliasedType>>
      [] node.kind = "LetStmt" -> <<node.type, node.init>>
      [] node.kind = "ConstStmt" -> <<node.type, node.value>>
      [] node.kind = "IfStmt" ->
            <<node.condition, node.thenBranch, node.elseBranch>>
      [] node.kind = "WhileStmt" -> <<node.condition, node.body>>
      [] node.kind = "LoopStmt" -> <<node.body>>
      [] node.kind = "ReturnStmt" -> <<node.value>>
      [] node.kind = "ExprStmt" -> <<node.expr>>
      [] node.kind = "BlockStmt" -> node.statements
      [] node.kind = "BlockExpr" -> node.statements \o <<node.finalExpr>>
      [] node.kind \in {"MatchStmt", "MatchExpr"} ->
            <<node.scrutinee>>
            \o [i \in DOMAIN node.arms |->
                  [kind |-> "MatchArm", pattern |-> node.arms[i].pattern,
                   guard |-> node.arms[i].guard, body |-> node.arms[i].body]]
      [] node.kind = "MatchArm" -> <<node.pattern, node.guard, node.body>>
      [] node.kind = "BinaryExpr" -> <<node.lhs, node.rhs>>
      [] node.kind = "CallExpr" -> <<node.callee>> \o node.arguments
      [] node.kind \in {"AssignExpr", "CompoundAssignExpr"} ->
            <<node.target, node.value>>
      [] node.kind = "StructLiteralExpr" ->
            [i \in DOMAIN node.fields |-> node.fields[i].value]
      [] node.kind = "GenericType" -> <<node.base>> \o node.typeArgs
      [] node.kind = "ConstructorPattern" ->
            node.positionalFields
            \o [i \in DOMAIN node.namedFields |-> node.namedFields[i].pattern]
      [] node.kind = "TuplePattern" -> node.elements
      [] OTHER -> <<>>

RECURSIVE PathsIn(_)
\* the paths of the nodes given and of every node below them: the
\* segments of path expressions and the paths of named types and of
\* constructor patterns
PathsIn(nodes) ==
    IF nodes = <<>> THEN {}
    ELSE LET node == Head(nodes)
             own == CASE node.kind = "PathExpr" -> {node.segments}
                      [] node.kind \in {"NamedType", "ConstructorPattern"} ->
                            {node.path}
                      [] OTHER -> {}
         IN  own \cup PathsIn(Parts(node)) \cup PathsIn(Tail(nodes))

\* the texts of the Identifier tokens of the source
IdentifierTexts ==
    LET toks == firstTokens(source, NewLexer, Len(source) + 1)
    IN  {toks[i].text : i \in {j \in DOMAIN toks :
                                  toks[j].kind = "Identifier"}}

\* C24: in every AST parseModule returns, also after syntax errors, every
\* path has at least one segment and every segment is the non-empty text
\* of an Identifier token (the types Void and Self, which parseType
\* writes as one-segment paths, apart).
C24_PathSegmentsAreIdentifiers ==
    (parserPc = "parseModule" /\ parser.status = "ok") =>
        \A path \in PathsIn(<<parser.val>>) :
            /\ path # <<>>
            /\ \/ path \in {<<"Void">>, <<"Self">>}
               \/ \A i \in DOMAIN path :
                     path[i] # "" /\ path[i] \in IdentifierTexts

\* ------------------------------------------------------------------------
\* Properties of the diagnostics of the lexer under the parser
\* ------------------------------------------------------------------------

RECURSIVE lexAllDiags(_, _, _)
\* the diagnostics Lexer::lexAll records from state s on, in at most n
\* iterations of its loop
lexAllDiags(src, s, n) ==
    IF n = 0 THEN <<>>
    ELSE LET r == nextToken(src, s)
         IN  IF r.threw \/ r.tok.kind = "Eof" THEN r.diags
             ELSE r.diags \o lexAllDiags(src, r.s, n - 1)

\* the diagnostics among ds that the lexer emits
LexerErrors(ds) ==
    LET all == lexAllDiags(source, NewLexer, Len(source) + 1)
    IN  SelectSeq(ds, LAMBDA d :
                        \E i \in DOMAIN all : all[i].message = d.message)

\* C25: parsing a source reports each lexical error exactly once: the
\* lookahead at `Name {` leaves no diagnostic behind for the tokens lexed
\* again after the restore, so parseModule records as many lexer errors
\* as lexAll does on the same source.
C25_LexicalErrorsReportedOnce ==
    (parserPc = "parseModule" /\ parser.status = "ok") =>
        Len(LexerErrors(parser.diags))
            = Len(lexAllDiags(source, NewLexer, Len(source) + 1))

\* ------------------------------------------------------------------------
\* Properties of the variables of the lowering
\* ------------------------------------------------------------------------

RECURSIVE KindsIn(_)
\* the kinds of the nodes given and of every node below them
KindsIn(nodes) ==
    IF nodes = <<>> THEN {}
    ELSE {Head(nodes).kind} \cup KindsIn(Parts(Head(nodes)))
             \cup KindsIn(Tail(nodes))

\* the module is made of functions whose statements are lets, returns,
\* blocks and expression statements over identifiers, integer literals
\* and binary operators: name resolution and the lowering meet the
\* identifiers of such a module in the same order
Straight(module) ==
    KindsIn(<<module>>) \subseteq
        {"Module", "FuncDecl", "NamedType", "Null", "BlockStmt", "LetStmt",
         "ReturnStmt", "ExprStmt", "IdentExpr", "IntLiteralExpr",
         "BinaryExpr"}

RECURSIVE LexicalUses(_, _, _)
\* for each identifier name resolution looked up and found in a function,
\* in order, the binding it found: the number, within its function, of the
\* parameter or let whose insert made the symbol.  scopes holds, from the
\* global scope to the current one, the bindings of each scope; count is
\* the number of inserts made in the current function
LexicalUses(trace, scopes, count) ==
    IF trace = <<>> THEN <<>>
    ELSE LET ev == Head(trace)
             top == Len(scopes)
             holders == {i \in 1..top : \E b \in scopes[i] : b.name = ev.name}
             innermost == CHOOSE i \in holders : \A j \in holders : j <= i
             found == CHOOSE b \in scopes[innermost] : b.name = ev.name
         IN  CASE ev.op = "enter" ->
                    LexicalUses(Tail(trace), Append(scopes, {}),
                                IF top = 1 THEN 0 ELSE count)
               [] ev.op = "exit" ->
                    LexicalUses(Tail(trace), SubSeq(scopes, 1, top - 1),
                                count)
               [] ev.op = "insert" /\ top > 1 ->
                    LexicalUses(Tail(trace),
                                IF ev.ok
                                THEN [scopes EXCEPT ![top] =
                                        @ \cup {[name |-> ev.name,
                                                 slot |-> count + 1]}]
                                ELSE scopes,
                                count + 1)
               [] ev.op = "lookup" /\ holders # {} ->
                    <<found.slot>> \o LexicalUses(Tail(trace), scopes, count)
               [] OTHER -> LexicalUses(Tail(trace), scopes, count)

RECURSIVE EmittedUses(_)
\* for each load of the functions given, in order, the alloca it reads:
\* the number, within its function, of the alloca
EmittedUses(functions) ==
    IF functions = <<>> THEN <<>>
    ELSE LET loads == SelectSeq(Head(functions).insts,
                                LAMBDA i : i.op = "load")
         IN  [i \in DOMAIN loads |-> loads[i].slot]
             \o EmittedUses(Tail(functions))

\* C26: every identifier the lowering reads is read from the slot of the
\* let or parameter that lexical scoping, as name resolution applies it,
\* binds the identifier to; a let of a nested block that has ended is not
\* what a later use in the enclosing block reads.
C26_UsesReadLexicalBinding ==
    (/\ driver.pc = "write"
     /\ getErrorCount(driver.diags) = 0
     /\ Straight(driver.module)) =>
        EmittedUses(driver.functions)
            = LexicalUses(resolve(NewResolver(<<>>, Scope("global")),
                                  driver.module).looked,
                          <<{}>>, 0)

\* ------------------------------------------------------------------------
\* Properties of enum variants
\* ------------------------------------------------------------------------

\* the declarations of the module are an enum and a function, in one
\* order or the other
EnumAndFunction ==
    /\ Len(sema.module.declarations) = 2
    /\ {sema.module.declarations[1].kind, sema.module.declarations[2].kind}
          = {"EnumDecl", "FuncDecl"}

\* the module with its two declarations in the other order
Swapped ==
    [sema.module EXCEPT !.declarations = <<@[2], @[1]>>]

\* C27: whether a function body that names a variant of an enum resolves
\* without error does not depend on whether the enum is declared before or
\* after the function.
C27_VariantsVisibleInAnyOrder ==
    (Resolved /\ EnumAndFunction) =>
        (getErrorCount(sema.resolved) = 0
            <=> getErrorCount(resolve(NewResolver(<<>>, Scope("global")),
                                      Swapped).diags) = 0)

\* the errors of the type checker about a type that is not known
UnknownTypeErrors ==
    SelectSeq(sema.diags,
              LAMBDA d : /\ d.severity = "Error"
                         /\ SubSeq(d.message, 1, 8) = "unknown ")

\* C28: within a generic declaration, one of its own generic parameters
\* used as the type of a parameter, of the return value or of a field
\* gives no unknown-type error.
C28_OwnGenericParametersAreTypes ==
    (source \in GenericDeclarations /\ Analyzed /\ sema.checked) =>
        UnknownTypeErrors = <<>>

\* ------------------------------------------------------------------------
\* Properties of nested generic types
\* ------------------------------------------------------------------------

\* the type of the first parameter or field of the declaration, or the
\* type an alias stands for
FirstType(decl) ==
    CASE decl.kind = "FuncDecl" -> decl.params[1].type
      [] decl.kind \in {"StructDecl", "ClassDecl"} -> decl.fields[1].type
      [] decl.kind = "TypeAliasDecl" -> decl.aliasedType

\* the type is a Generic node whose last type argument is a Generic node
NestedGeneric(type) ==
    /\ type.kind = "GenericType"
    /\ type.typeArgs # <<>>
    /\ type.typeArgs[Len(type.typeArgs)].kind = "GenericType"

\* C29: a generic type whose last type argument is generic, written with
\* adjacent closing angle brackets, parses as nested Generic type nodes
\* with zero diagnostics.
C29_AdjacentClosingBrackets ==
    (source \in NestedGenericDeclarations /\ Parsed) =>
        /\ parser.diags = <<>>
        /\ Len(parser.val.declarations) = 1
        /\ NestedGeneric(FirstType(parser.val.declarations[1]))

\* ------------------------------------------------------------------------
\* Properties of visibility and linkage
\* ------------------------------------------------------------------------

\* the code generator has lowered the one function of a module with or
\* without a visibility modifier
Lowered ==
    /\ source \in VisibilitySources
    /\ driver.module # Null
    /\ Len(driver.module.declarations) = 1
    /\ Len(driver.functions) = 1

\* C30: a function declared with pub or public is recorded with Public
\* visibility and lowered with external linkage; a function with no
\* modifier or with private, and not named main, is lowered with internal
\* linkage.
C30_ModifierDecidesLinkage ==
    Lowered =>
        /\ source \in PublicDeclarations =>
              /\ driver.module.declarations[1].visibility = "Public"
              /\ driver.functions[1].linkage = "ExternalLinkage"
        /\ (/\ source \in PrivateDeclarations
            /\ driver.functions[1].name # "main") =>
              driver.functions[1].linkage = "InternalLinkage"

====
